---------------------------- MODULE Spec2Model ----------------------------
(***************************************************************************)
(* A model of the query engine: the dataframe builds a logical plan, the   *)
(* optimizer pushes projections down, the planner lowers the plan, and the *)
(* pull-based operators ScanExec / ProjectionExec / SelectionExec /        *)
(* AggregateExec exchange batches of columnar arrays.                      *)
(*                                                                         *)
(* An array is modelled the way arrow2 stores it: a physical type, a value *)
(* buffer and a validity bitmap.  Int32 values are integers, Boolean       *)
(* values are the integers 0 and 1, and the value slot of a null is 0.     *)
(***************************************************************************)
EXTENDS Integers, Sequences, FiniteSets, TLC

VARIABLES
    plan,       \* DataFrame.plan: the logical plan, nodes listed from the Scan upwards
    before,     \* the plan the last optimize() call consumed (NoPlan before any call)
    optimized,  \* how many times optimize() has been applied to plan
    physical,   \* the PhysicalPlan to_physical_plan() returned, same node order
    pc,         \* position of the caller: build, exec, drain, iter, done, failed, panic
    built,      \* number of plan levels whose execute() has returned its iterator
    scanned,    \* number of batches the data source's FileReader has yielded
    hashmap,    \* the HashMap of the AggregateExec::execute call in progress
    output,     \* AggregateIterator.output of every level (an Option<Batch>)
    trace,      \* the item every level returned in the last next() chain
    results,    \* what DataFrame::execute has collected: count of batches and the error
    failure,    \* the Error a failed call returned, or the panic that aborted the run
    seen,       \* history: the rows the last AggregateExec::execute received, and its level
    file,       \* history: the rows of the batch the FileReader read last
    emitted,    \* history: how many items Some(..) every level's iterator has returned
    raised,     \* history: the first Err an operator or an evaluation produced
    call,       \* the last call of a function of the crate made on its own, with its result
    accumulated \* history: the batch the AggregateExec::execute in progress consumed last,
                \* its accumulate calls and the hashmap before it

vars == <<plan, before, optimized, physical, pc, built, scanned, hashmap, output,
          trace, results, failure, seen, file, emitted, raised, call, accumulated>>

(***************************************************************************)
(* Bounds of the model.                                                    *)
(***************************************************************************)
MaxRows == 2        \* rows in one batch of the data source
MaxBatches == 2     \* batches the data source yields before it is exhausted
MaxOps == 2         \* dataframe operations stacked over the Scan

(***************************************************************************)
(* Small helpers.                                                          *)
(***************************************************************************)
Range(s) == {s[i] : i \in DOMAIN s}

RECURSIVE SeqsUpTo(_, _)
SeqsUpTo(S, n) ==
    IF n = 0 THEN {<<>>}
    ELSE LET shorter == SeqsUpTo(S, n - 1)
         IN  shorter \cup {Append(s, x) : s \in {t \in shorter : Len(t) = n - 1}, x \in S}

\* The sequences that list every element of the finite set S exactly once.
RECURSIVE Orderings(_)
Orderings(S) ==
    IF S = {} THEN {<<>>}
    ELSE UNION {{<<x>> \o t : t \in Orderings(S \ {x})} : x \in S}

BoolInt(b) == IF b THEN 1 ELSE 0

(***************************************************************************)
(* Arrays, scalars and ColumnarValue.                                      *)
(***************************************************************************)
MkArray(ty, vals, valid) == [ty |-> ty, vals |-> vals, valid |-> valid]
ArrayLen(array) == Len(array.vals)
\* The value buffer with the slots of nulls set to 0.
Canon(vals, valid) == [i \in DOMAIN vals |-> IF valid[i] THEN vals[i] ELSE 0]

\* Chunk::len(): the length of the first array, 0 for a chunk without arrays.
ChunkLen(chunk) == IF chunk = <<>> THEN 0 ELSE ArrayLen(chunk[1])

\* The result of an evaluation: ColumnarValue::Array, ColumnarValue::Scalar, an
\* Err(Error) value, or a panic that unwinds the caller.
ArrayValue(ty, vals, valid) ==
    [kind |-> "Array", ty |-> ty, vals |-> Canon(vals, valid), valid |-> valid, err |-> ""]
ScalarValue(ty, v, ok) ==
    [kind |-> "Scalar", ty |-> ty, vals |-> <<IF ok THEN v ELSE 0>>, valid |-> <<ok>>, err |-> ""]
ErrValue(e) == [kind |-> "Err", ty |-> "", vals |-> <<>>, valid |-> <<>>, err |-> e]
PanicValue(e) == [kind |-> "Panic", ty |-> "", vals |-> <<>>, valid |-> <<>>, err |-> e]
IsFailure(r) == r.kind \in {"Err", "Panic"}
AsArray(r) == MkArray(r.ty, r.vals, r.valid)


(***************************************************************************)
(* columnar_value.rs                                                       *)
(***************************************************************************)
Repeat(x, n) == [i \in 1..n |-> x]

\* A faulty scalar_to_array with no arm for Boolean scalars.
scalar_to_array_without_boolean(scalar, len) ==
    IF scalar.ty \in {"Int32", "Float64", "Utf8"} /\ scalar.valid[1]
    THEN ArrayValue(scalar.ty, Repeat(scalar.vals[1], len), Repeat(TRUE, len))
    ELSE ErrValue("ScalarToArrayError")
scalar_to_array_zeroed(scalar, len) ==   \* a faulty variant: zeroed slots
    ArrayValue(scalar.ty, Repeat(0, len), Repeat(TRUE, len))
\* scalar_to_array: a non-null Int32, Float64, Utf8 or Boolean scalar becomes an
\* array of len copies of its value; anything else is ScalarToArrayError.
scalar_to_array(scalar, len) ==
    IF scalar.ty \in {"Int32", "Float64", "Utf8", "Boolean"} /\ scalar.valid[1]
    THEN ArrayValue(scalar.ty, Repeat(scalar.vals[1], len), Repeat(TRUE, len))
    ELSE ErrValue("ScalarToArrayError")

\* ColumnarValue::to_array: scalar_to_array(..).unwrap().
to_array(value, len) ==
    IF value.kind = "Array" THEN value
    ELSE LET r == scalar_to_array(value, len)
         IN  IF r.kind = "Err" THEN PanicValue("unwrap:" \o r.err) ELSE r

(***************************************************************************)
(* physical_expressions.rs: the physical expressions and evaluate.         *)
(***************************************************************************)
ColumnExpression(index) == [op |-> "Column", index |-> index, value |-> 0, args |-> <<>>]
LiteralIntegerExpression(v) == [op |-> "LiteralInteger", index |-> 0, value |-> v, args |-> <<>>]
LiteralBoolExpression(b) == [op |-> "LiteralBool", index |-> 0, value |-> BoolInt(b), args |-> <<>>]
BinaryExpression(op, left, right) == [op |-> op, index |-> 0, value |-> 0, args |-> <<left, right>>]
UnaryExpression(op, expr) == [op |-> op, index |-> 0, value |-> 0, args |-> <<expr>>]

ComparisonOps == {"Eq", "Neq"}
MathOps == {"Add", "Sub", "Mul", "Div"}
AggregateOps == {"Max", "Min"}

\* ColumnExpression::evaluate: the array at position index when its physical
\* type is Int32, Float64, Utf8 or Boolean; a missing position or another type
\* is the error PrimitiveTypeNotSuported.
EvaluateColumn(index, input) ==
    IF index + 1 \in DOMAIN input
       /\ input[index + 1].ty \in {"Int32", "Float64", "Utf8", "Boolean"}
    THEN ArrayValue(input[index + 1].ty, input[index + 1].vals, input[index + 1].valid)
    ELSE ErrValue("PrimitiveTypeNotSuported")

\* The comparison applied to two values ($op of the macro, and the kernels'
\* elementwise operation).
CompareValues(op, x, y) == IF op = "Eq" THEN BoolInt(x = y) ELSE BoolInt(x # y)

\* compute::comparison::eq / neq on two arrays: the kernels assert equal data
\* types, compare slot by slot, and a slot is null when either input is null.
ComparisonKernel(op, left, right) ==
    IF left.ty # right.ty THEN PanicValue("comparison:data types differ")
    ELSE ArrayValue("Boolean",
                    [i \in DOMAIN left.vals |-> CompareValues(op, left.vals[i], right.vals[i])],
                    [i \in DOMAIN left.vals |-> left.valid[i] /\ right.valid[i]])

\* compute::comparison::eq_scalar / neq_scalar: a null scalar gives an all-null
\* array.
ComparisonScalarKernel(op, array, scalar) ==
    IF array.ty # scalar.ty THEN PanicValue("comparison:data types differ")
    ELSE ArrayValue("Boolean",
                    [i \in DOMAIN array.vals |-> CompareValues(op, array.vals[i], scalar.vals[1])],
                    [i \in DOMAIN array.vals |-> array.valid[i] /\ scalar.valid[1]])

\* comparisonExpression!::evaluate on the values of its two operands.
EvaluateComparison(op, l, r) ==
    CASE l.kind = "Array" /\ r.kind = "Array" ->
            IF Len(l.vals) = Len(r.vals) THEN ComparisonKernel(op, l, r)
            ELSE ErrValue("DifferentSizes")
      [] l.kind = "Array" /\ r.kind = "Scalar" -> ComparisonScalarKernel(op, l, r)
      [] l.kind = "Scalar" /\ r.kind = "Array" -> ComparisonScalarKernel(op, r, l)
      [] OTHER ->
            \* dyn Scalar equality: same data type, same Option value
            LET same == l.ty = r.ty /\ l.valid = r.valid /\ l.vals = r.vals
            IN  ScalarValue("Boolean", IF op = "Eq" THEN BoolInt(same) ELSE BoolInt(~same), TRUE)

\* std::ops::{Add, Sub, Mul, Div} on two values; the quotient truncates toward
\* zero.  Division by zero is decided by the callers.
Quotient(x, y) ==
    LET ax == IF x < 0 THEN -x ELSE x
        ay == IF y < 0 THEN -y ELSE y
        q  == ax \div ay
    IN  IF (x < 0) = (y < 0) THEN q ELSE -q
ArithValues(op, x, y) ==
    CASE op = "Add" -> x + y
      [] op = "Sub" -> x - y
      [] op = "Mul" -> x * y
      [] OTHER -> Quotient(x, y)

NumericTypes == {"Int32", "Float64"}

\* compute::arithmetics::add / sub / mul / div on two arrays.
MathKernel(op, left, right) ==
    IF left.ty # right.ty \/ left.ty \notin NumericTypes
    THEN PanicValue("arithmetics:unsupported data types")
    ELSE IF op = "Div" /\ left.ty = "Int32"
            /\ \E i \in DOMAIN right.vals : left.valid[i] /\ right.valid[i] /\ right.vals[i] = 0
    THEN PanicValue("arithmetics:division by zero")
    ELSE LET valid == [i \in DOMAIN left.vals |-> left.valid[i] /\ right.valid[i]]
         IN  ArrayValue(left.ty,
                        [i \in DOMAIN left.vals |->
                            IF valid[i] THEN ArithValues(op, left.vals[i], right.vals[i]) ELSE 0],
                        valid)

\* A faulty scalar kernel whose result has the length of the scalar.
MathScalarKernelOfOneSlot(op, array, scalar) ==
    IF array.ty # scalar.ty \/ array.ty \notin NumericTypes
    THEN PanicValue("arithmetics:unsupported data types")
    ELSE ArrayValue(array.ty, <<0>>, <<FALSE>>)
\* compute::arithmetics::add_scalar / ..: array[i] op scalar, all null for a
\* null scalar.
MathScalarKernel(op, array, scalar) ==
    IF array.ty # scalar.ty \/ array.ty \notin NumericTypes
    THEN PanicValue("arithmetics:unsupported data types")
    ELSE IF op = "Div" /\ array.ty = "Int32" /\ scalar.valid[1] /\ scalar.vals[1] = 0
            /\ \E i \in DOMAIN array.vals : array.valid[i]
    THEN PanicValue("arithmetics:division by zero")
    ELSE LET valid == [i \in DOMAIN array.vals |-> array.valid[i] /\ scalar.valid[1]]
         IN  ArrayValue(array.ty,
                        [i \in DOMAIN array.vals |->
                            IF valid[i] THEN ArithValues(op, array.vals[i], scalar.vals[1]) ELSE 0],
                        valid)

\* mathExpression!::evaluate on the values of its two operands.  For (Scalar,
\* Array) the scalar kernel is called with the array first.
EvaluateMath(op, left, right) ==
    CASE left.kind = "Array" /\ right.kind = "Array" ->
            IF Len(left.vals) = Len(right.vals) THEN MathKernel(op, left, right)
            ELSE ErrValue("DifferentSizes")
      [] left.kind = "Array" /\ right.kind = "Scalar" -> MathScalarKernel(op, left, right)
      [] left.kind = "Scalar" /\ right.kind = "Array" -> MathScalarKernel(op, right, left)
      [] OTHER ->
            IF left.ty = right.ty /\ left.ty \in NumericTypes
            THEN IF ~(left.valid[1] /\ right.valid[1]) THEN ScalarValue(left.ty, 0, FALSE)
                 ELSE IF op = "Div" /\ left.ty = "Int32" /\ right.vals[1] = 0
                 THEN PanicValue("attempt to divide by zero")
                 ELSE ScalarValue(left.ty, ArithValues(op, left.vals[1], right.vals[1]), TRUE)
            ELSE ErrValue("PrimitiveTypeNotSuported")

\* PhysicalExpression::evaluate.  A binary expression evaluates its left operand,
\* then its right operand, each with `?`.  MaxExpression and MinExpression
\* return the value of their operand.
RECURSIVE evaluate(_, _)
evaluate(expr, input) ==
    CASE expr.op = "Column" -> EvaluateColumn(expr.index, input)
      [] expr.op = "LiteralInteger" -> ScalarValue("Int32", expr.value, TRUE)
      [] expr.op = "LiteralBool" -> ScalarValue("Boolean", expr.value, TRUE)
      [] expr.op \in AggregateOps -> evaluate(expr.args[1], input)
      [] OTHER ->
            LET l == evaluate(expr.args[1], input)
            IN  IF IsFailure(l) THEN l
                ELSE LET r == evaluate(expr.args[2], input)
                     IN  IF IsFailure(r) THEN r
                         ELSE IF expr.op \in ComparisonOps THEN EvaluateComparison(expr.op, l, r)
                         ELSE EvaluateMath(expr.op, l, r)


(***************************************************************************)
(* The data source: a parquet file with the columns a, b (Int32) and c     *)
(* (Timestamp).                                                            *)
(***************************************************************************)
Field(name, ty, nullable) == [name |-> name, ty |-> ty, nullable |-> nullable]

\* DataSource::schema(): infer_schema of the file's metadata.
DataSourceSchema ==
    << Field("a", "Int32", TRUE), Field("b", "Int32", TRUE), Field("c", "Timestamp", TRUE) >>

NoProjection == [some |-> FALSE, names |-> <<>>]
SomeProjection(names) == [some |-> TRUE, names |-> names]

\* Vec::contains
Contains(names, name) == \E i \in DOMAIN names : names[i] = name

\* The positions of the data source's fields a projection selects, in the data
\* source's order (the filter_map of ParquetDataSource::scan).
RECURSIVE ProjectedIndices(_, _)
ProjectedIndices(projection, n) ==
    IF n = 0 THEN <<>>
    ELSE LET rest == ProjectedIndices(projection, n - 1)
         IN  IF Contains(projection.names, DataSourceSchema[n].name)
             THEN Append(rest, n) ELSE rest

AllIndices == [i \in DOMAIN DataSourceSchema |-> i]

\* ParquetDataSource::scan: the column positions handed to FileReader::try_new.
ScanIndices(projection) ==
    IF projection.some THEN ProjectedIndices(projection, Len(DataSourceSchema))
    ELSE AllIndices

\* A faulty derive_schema that lists the fields in the order of the projection.
RECURSIVE FieldsNamed(_, _)
FieldsNamed(names, i) ==
    IF i > Len(names) THEN <<>>
    ELSE SelectSeq(DataSourceSchema, LAMBDA f : f.name = names[i]) \o FieldsNamed(names, i + 1)
ScanDeriveSchemaInListOrder(projection) ==
    IF projection.some THEN FieldsNamed(projection.names, 1) ELSE DataSourceSchema
\* Scan::derive_schema / ScanExec::derive_schema: the data source's fields whose
\* name the projection contains, in the data source's order; all without one.
ScanDeriveSchema(projection) ==
    IF projection.some
    THEN LET idx == ProjectedIndices(projection, Len(DataSourceSchema))
         IN  [i \in DOMAIN idx |-> DataSourceSchema[idx[i]]]
    ELSE DataSourceSchema

(***************************************************************************)
(* logical_expression.rs                                                   *)
(***************************************************************************)
Column(name) == [op |-> "Column", name |-> name, value |-> 0, args |-> <<>>]
LiteralInteger(v) == [op |-> "LiteralInteger", name |-> "", value |-> v, args |-> <<>>]
LiteralBool(b) == [op |-> "LiteralBool", name |-> "", value |-> BoolInt(b), args |-> <<>>]
Binary(op, left, right) == [op |-> op, name |-> "", value |-> 0, args |-> <<left, right>>]
Unary(op, expr) == [op |-> op, name |-> "", value |-> 0, args |-> <<expr>>]

BooleanBinaryOps == {"Eq", "Neq", "Gt", "GtEq", "Lt", "LtEq", "And", "Or"}
LogicalMathOps == {"Add", "Sub", "Mul", "Div", "Mod"}
LogicalAggregateOps == {"Sum", "Avg", "Max", "Min", "Count"}

\* The name field the macros give an expression ("eq".to_string(), ...).
OpName(op) ==
    CASE op = "Eq" -> "eq" [] op = "Neq" -> "neq" [] op = "Gt" -> "gt" [] op = "GtEq" -> "gteq"
      [] op = "Lt" -> "lt" [] op = "LtEq" -> "lteq" [] op = "And" -> "and" [] op = "Or" -> "or"
      [] op = "Add" -> "add" [] op = "Sub" -> "sub" [] op = "Mul" -> "mul" [] op = "Div" -> "div"
      [] op = "Mod" -> "mod" [] op = "Sum" -> "sum" [] op = "Avg" -> "avg" [] op = "Max" -> "max"
      [] op = "Min" -> "min" [] OTHER -> "count"

FieldOk(f) == [ok |-> TRUE, field |-> f, err |-> ""]
FieldErr(e) == [ok |-> FALSE, field |-> Field("", "", FALSE), err |-> e]

\* Iterator::position on the schema's fields: the first index (from 0) whose
\* name matches, -1 for None.
RECURSIVE PositionFrom(_, _, _)
PositionFrom(schema, name, i) ==
    IF i > Len(schema) THEN -1
    ELSE IF schema[i].name = name THEN i - 1
    ELSE PositionFrom(schema, name, i + 1)
Position(schema, name) == PositionFrom(schema, name, 1)

\* LogicalExpression::to_field against the schema of the input plan.
RECURSIVE to_field(_, _)
to_field(expr, schema) ==
    CASE expr.op = "Column" ->
            LET i == Position(schema, expr.name)
            IN  IF i < 0 THEN FieldErr("NoFieldInLogicalPlan") ELSE FieldOk(schema[i + 1])
      [] expr.op = "LiteralInteger" -> FieldOk(Field(ToString(expr.value), "Int32", FALSE))
      [] expr.op = "LiteralBool" ->
            FieldOk(Field(IF expr.value = 1 THEN "true" ELSE "false", "Boolean", FALSE))
      [] expr.op \in BooleanBinaryOps -> FieldOk(Field(OpName(expr.op), "Boolean", FALSE))
      [] OTHER ->
            \* math and aggregate expressions take the type of their (left) operand
            LET inner == to_field(expr.args[1], schema)
            IN  IF inner.ok THEN FieldOk(Field(OpName(expr.op), inner.field.ty, FALSE))
                ELSE inner

(***************************************************************************)
(* logical_plan/mod.rs: the plan nodes.  A plan is the sequence of its     *)
(* nodes from the Scan (position 1) to the root; the child of node k is    *)
(* node k - 1.                                                             *)
(***************************************************************************)
Node(kind, exprs, aggs, projection, schema) ==
    [kind |-> kind, exprs |-> exprs, aggs |-> aggs, projection |-> projection, schema |-> schema]

\* Scan::new
ScanNode(projection) == Node("Scan", <<>>, <<>>, projection, ScanDeriveSchema(projection))

\* The fields of a list of expressions, or the first error (collect into Result).
RECURSIVE FieldsOf(_, _, _)
FieldsOf(exprs, schema, i) ==
    IF i > Len(exprs) THEN [ok |-> TRUE, fields |-> <<>>, err |-> ""]
    ELSE LET f == to_field(exprs[i], schema)
         IN  IF ~f.ok THEN [ok |-> FALSE, fields |-> <<>>, err |-> f.err]
             ELSE LET rest == FieldsOf(exprs, schema, i + 1)
                  IN  IF rest.ok THEN [rest EXCEPT !.fields = <<f.field>> \o @] ELSE rest

\* Projection::derive_schema, Selection::derive_schema and
\* Aggregate::derive_schema (before their unwrap): the fields of the node's
\* expressions against the child, group expressions before aggregate ones.
derive_schema(kind, exprs, aggs, child) == FieldsOf(exprs \o aggs, child.schema, 1)

\* Projection::new / Selection::new / Aggregate::new over a plan; each panics in
\* derive_schema's unwrap when a field cannot be derived.
CanConstruct(kind, exprs, aggs, input) ==
    derive_schema(kind, exprs, aggs, input[Len(input)]).ok
NewNode(kind, exprs, aggs, input) ==
    Append(input, Node(kind, exprs, aggs, NoProjection,
                       derive_schema(kind, exprs, aggs, input[Len(input)]).fields))


(***************************************************************************)
(* logical_plan/optimizer.rs: projection push down.                        *)
(***************************************************************************)
\* extract_columns: the names of the Column leaves of an expression.
RECURSIVE extract_columns(_)
extract_columns(expr) ==
    IF expr.op = "Column" THEN {expr.name}
    ELSE UNION {extract_columns(expr.args[i]) : i \in DOMAIN expr.args}

\* extract_all_columns
extract_all_columns(exprs) == UNION {extract_columns(exprs[i]) : i \in DOMAIN exprs}

\* The hash_set push_down holds when it reaches the Scan: the columns of every
\* node above it, and the names of the Scan's own projection if it has one.
RECURSIVE ColumnsAbove(_, _)
ColumnsAbove(p, k) ==
    IF k > Len(p) THEN {}
    ELSE extract_all_columns(p[k].exprs) \cup extract_all_columns(p[k].aggs)
         \cup ColumnsAbove(p, k + 1)
\* Faulty variants of the hash_set (used to show that the push-down properties
\* can fail): only the Scan's own projection; the columns above only when the
\* Scan has no projection yet.
PushDownSetOfScanOnly(p) == IF p[1].projection.some THEN Range(p[1].projection.names) ELSE {}
PushDownSetForgetting(p) == IF p[1].projection.some THEN {} ELSE ColumnsAbove(p, 2)
PushDownSet(p) ==
    ColumnsAbove(p, 2) \cup (IF p[1].projection.some THEN Range(p[1].projection.names) ELSE {})

\* push_down: the Scan is rebuilt by Scan::new with the hash_set's names (in the
\* order the HashSet iterates, here `names`), and every node above it by its
\* constructor over the rewritten input, with its own expressions.
\* A faulty rebuild that drops the nodes above the Scan.
ReconstructDropping(p, acc, k) == acc
RECURSIVE Reconstruct(_, _, _)
Reconstruct(p, acc, k) ==
    IF k > Len(p) THEN acc
    ELSE Reconstruct(p, NewNode(p[k].kind, p[k].exprs, p[k].aggs, acc), k + 1)
RECURSIVE CanReconstruct(_, _, _)
CanReconstruct(p, acc, k) ==
    IF k > Len(p) THEN TRUE
    ELSE /\ CanConstruct(p[k].kind, p[k].exprs, p[k].aggs, acc)
         /\ CanReconstruct(p, NewNode(p[k].kind, p[k].exprs, p[k].aggs, acc), k + 1)
\* A faulty push_down that lists every name twice.
push_down_twice(p, names) == Reconstruct(p, <<ScanNode(SomeProjection(names \o names))>>, 2)
push_down(p, names) == Reconstruct(p, <<ScanNode(SomeProjection(names))>>, 2)
PushDownPanics(p, names) == ~CanReconstruct(p, <<ScanNode(SomeProjection(names))>>, 2)

(***************************************************************************)
(* query_planner.rs: lowering.                                             *)
(***************************************************************************)
Lowered(e) == [ok |-> TRUE, expr |-> e, err |-> ""]
NotLowered(e) == [ok |-> FALSE, expr |-> ColumnExpression(0), err |-> e]

\* A faulty to_physical_expression that resolves a column the schema lacks to
\* the first column.
RECURSIVE to_physical_expression_defaulting(_, _)
to_physical_expression_defaulting(expr, schema) ==
    IF expr.op = "Column"
    THEN Lowered(ColumnExpression(IF Position(schema, expr.name) < 0 THEN 0
                                  ELSE Position(schema, expr.name)))
    ELSE IF expr.args = <<>> THEN Lowered([op |-> expr.op, index |-> 0, value |-> expr.value,
                                           args |-> <<>>])
    ELSE Lowered([op |-> expr.op, index |-> 0, value |-> 0,
                  args |-> [i \in DOMAIN expr.args |->
                               to_physical_expression_defaulting(expr.args[i], schema).expr]])
\* LogicalExpression::to_physical_expression against the input plan's schema.
RECURSIVE to_physical_expression(_, _)
to_physical_expression(expr, schema) ==
    CASE expr.op = "Column" ->
            LET i == Position(schema, expr.name)
            IN  IF i < 0 THEN NotLowered("NoFieldInLogicalPlan") ELSE Lowered(ColumnExpression(i))
      [] expr.op = "LiteralInteger" -> Lowered(LiteralIntegerExpression(expr.value))
      [] expr.op = "LiteralBool" -> Lowered(LiteralBoolExpression(expr.value = 1))
      [] expr.op \in ComparisonOps \cup MathOps ->
            LET left == to_physical_expression(expr.args[1], schema)
            IN  IF ~left.ok THEN left
                ELSE LET right == to_physical_expression(expr.args[2], schema)
                     IN  IF ~right.ok THEN right
                         ELSE Lowered(BinaryExpression(expr.op, left.expr, right.expr))
      [] expr.op \in AggregateOps ->
            LET inner == to_physical_expression(expr.args[1], schema)
            IN  IF ~inner.ok THEN inner ELSE Lowered(UnaryExpression(expr.op, inner.expr))
      [] OTHER -> NotLowered("PhysicalExpressionNotSuported")

\* A faulty to_physical_aggregate_expression that lowers any expression.
to_physical_aggregate_expression_of_any(expr, schema) == to_physical_expression(expr, schema)
\* LogicalExpression::to_physical_aggregate_expression
to_physical_aggregate_expression(expr, schema) ==
    IF expr.op \in AggregateOps
    THEN LET inner == to_physical_expression(expr.args[1], schema)
         IN  IF ~inner.ok THEN inner ELSE Lowered(UnaryExpression(expr.op, inner.expr))
    ELSE NotLowered("PhysicalExpressionNotSuported")

\* A list of expressions lowered in order, stopping at the first error.
RECURSIVE LowerAll(_, _, _, _)
LowerAll(exprs, schema, aggregate, i) ==
    IF i > Len(exprs) THEN [ok |-> TRUE, exprs |-> <<>>, err |-> ""]
    ELSE LET e == IF aggregate THEN to_physical_aggregate_expression(exprs[i], schema)
                  ELSE to_physical_expression(exprs[i], schema)
         IN  IF ~e.ok THEN [ok |-> FALSE, exprs |-> <<>>, err |-> e.err]
             ELSE LET rest == LowerAll(exprs, schema, aggregate, i + 1)
                  IN  IF rest.ok THEN [rest EXCEPT !.exprs = <<e.expr>> \o @] ELSE rest

\* LogicalPlan::to_physical_plan on the node at position k: the node's own
\* expressions are lowered against its child before the child is lowered, so
\* the error of the outermost failing node is the one returned.
RECURSIVE to_physical_plan(_, _)
to_physical_plan(p, k) ==
    IF k = 1
    THEN [ok |-> TRUE, err |-> "",
          nodes |-> <<Node("Scan", <<>>, <<>>, p[1].projection, ScanDeriveSchema(p[1].projection))>>]
    ELSE LET Lowering(exprs, aggs) ==
                 IF ~exprs.ok THEN [ok |-> FALSE, err |-> exprs.err, nodes |-> <<>>]
                 ELSE IF ~aggs.ok THEN [ok |-> FALSE, err |-> aggs.err, nodes |-> <<>>]
                 ELSE LET children == to_physical_plan(p, k - 1)
                      IN  IF ~children.ok THEN children
                          ELSE [children EXCEPT !.nodes =
                                    Append(@, Node(p[k].kind, exprs.exprs, aggs.exprs,
                                                   NoProjection, p[k].schema))]
         IN  Lowering(LowerAll(p[k].exprs, p[k - 1].schema, FALSE, 1),
                      LowerAll(p[k].aggs, p[k - 1].schema, TRUE, 1))


(***************************************************************************)
(* physical_plan/mod.rs: the items the iterators exchange.  An item is     *)
(* Some(Ok(chunk)), Some(Err(error)) or None; "panic" stands for a next()  *)
(* call that unwound, "idle" for a level the last call chain did not reach. *)
(***************************************************************************)
BatchItem(cols) == [tag |-> "batch", cols |-> cols, err |-> ""]
ErrItem(e) == [tag |-> "err", cols |-> <<>>, err |-> e]
PanicItem(e) == [tag |-> "panic", cols |-> <<>>, err |-> e]
NoneItem == [tag |-> "none", cols |-> <<>>, err |-> ""]
IdleItem == [tag |-> "idle", cols |-> <<>>, err |-> ""]

\* Chunk::new panics unless all arrays have the same length.
ChunkNew(arrays) ==
    IF \A i \in DOMAIN arrays : ArrayLen(arrays[i]) = ArrayLen(arrays[1])
    THEN BatchItem(arrays)
    ELSE PanicItem("Chunk require all its arrays to have an equal number of rows")

\* Row i of a chunk as a chunk of length 1 (Array::slice(i, 1) of every array),
\* and the set of the rows of a chunk.
RowSlice(chunk, i) ==
    [c \in DOMAIN chunk |-> MkArray(chunk[c].ty, <<chunk[c].vals[i]>>, <<chunk[c].valid[i]>>)]
RowsOfChunk(chunk) == {RowSlice(chunk, i) : i \in 1..ChunkLen(chunk)}

\* The rows the data source's file may hold: (a, b) with a nullable; c is 7.
Valid(v) == [v |-> v, ok |-> TRUE]
Null == [v |-> 0, ok |-> FALSE]
RowSet == { <<Valid(1), Valid(2)>>, <<Valid(2), Valid(1)>>, <<Null, Valid(2)>> }
RowsOfBatches == SeqsUpTo(RowSet, MaxRows)

\* The column of the file at data-source position n, for a batch of rows.
FileColumn(rows, n) ==
    IF n = 3 THEN MkArray("Timestamp", [i \in DOMAIN rows |-> 7], [i \in DOMAIN rows |-> TRUE])
    ELSE MkArray(DataSourceSchema[n].ty,
                 [i \in DOMAIN rows |-> rows[i][n].v], [i \in DOMAIN rows |-> rows[i][n].ok])

\* The chunk FileReader yields for a batch of rows under ScanExec's projection.
ScanChunk(rows, projection) ==
    LET idx == ScanIndices(projection)
    IN  [i \in DOMAIN idx |-> FileColumn(rows, idx[i])]

\* ProjectionIterator::next on the item of its child.
RECURSIVE ProjectArrays(_, _, _)
ProjectArrays(exprs, chunk, i) ==
    IF i > Len(exprs) THEN [tag |-> "batch", cols |-> <<>>, err |-> ""]
    ELSE LET Inflate(col) ==
                 IF col.kind = "Scalar" THEN scalar_to_array(col, ChunkLen(chunk)) ELSE col
             Gather(arr) ==
                 IF arr.kind = "Panic" THEN PanicItem(arr.err)
                 ELSE IF arr.kind = "Err" THEN ErrItem(arr.err)
                 ELSE LET rest == ProjectArrays(exprs, chunk, i + 1)
                      IN  IF rest.tag = "batch" THEN [rest EXCEPT !.cols = <<AsArray(arr)>> \o @]
                          ELSE rest
         IN  Gather(Inflate(evaluate(exprs[i], chunk)))
ProjectionNext(exprs, item) ==
    IF item.tag # "batch" THEN item
    ELSE LET Wrap(v) == IF v.tag = "batch" THEN ChunkNew(v.cols) ELSE v
         IN  Wrap(ProjectArrays(exprs, item.cols, 1))

\* compute::filter::filter_chunk: every array keeps the slots where the mask is
\* true; a null slot of the mask counts as false.
RECURSIVE KeptFrom(_, _)
KeptFrom(mask, i) ==
    IF i > Len(mask.vals) THEN <<>>
    ELSE IF mask.valid[i] /\ mask.vals[i] = 1 THEN <<i>> \o KeptFrom(mask, i + 1)
    ELSE KeptFrom(mask, i + 1)
TakeArray(array, idx) ==
    MkArray(array.ty, [j \in DOMAIN idx |-> array.vals[idx[j]]],
            [j \in DOMAIN idx |-> array.valid[idx[j]]])
\* A faulty filter_chunk that returns the first array only.
filter_chunk_first_array(chunk, mask) == <<TakeArray(chunk[1], KeptFrom(mask, 1))>>
\* A faulty filter_chunk that keeps every row (used to show that the filter
\* properties below depend on the mask).
filter_chunk_keeping_all(chunk, mask) == chunk
filter_chunk(chunk, mask) ==
    LET idx == KeptFrom(mask, 1)
    IN  [c \in DOMAIN chunk |-> TakeArray(chunk[c], idx)]

\* SelectionIterator::next on the item of its child.
\* A faulty SelectionIterator::next that ends the sequence at a batch none of
\* whose rows pass the predicate.
SelectionNextEndingEarly(expr, item) ==
    IF item.tag = "batch" /\ evaluate(expr, item.cols).kind = "Array"
       /\ KeptFrom(evaluate(expr, item.cols), 1) = <<>>
    THEN NoneItem ELSE item
SelectionNext(expr, item) ==
    IF item.tag # "batch" THEN item
    ELSE LET Inflate(col) ==
                 IF col.kind = "Scalar" THEN scalar_to_array(col, ChunkLen(item.cols)) ELSE col
             Apply(bitvector) ==
                 IF bitvector.kind = "Panic" THEN PanicItem(bitvector.err)
                 ELSE IF bitvector.kind = "Err" THEN ErrItem(bitvector.err)
                 ELSE IF bitvector.ty # "Boolean" THEN ErrItem("NoBooleanArrayForFilter")
                 ELSE BatchItem(filter_chunk(item.cols, AsArray(bitvector)))
         IN  Apply(Inflate(evaluate(expr, item.cols)))


(***************************************************************************)
(* AggregateExec: hashes.  A u64 is four 16-bit limbs, most significant    *)
(* first.  compute::hash uses a hasher with fixed seeds, so equal values   *)
(* of one type have equal hashes in every column; the hasher itself is     *)
(* modelled by an injective mixing function.                               *)
(***************************************************************************)
Limb == 256 * 256
TypeSalt(ty) ==
    CASE ty = "UInt64" -> 1 [] ty = "Int32" -> 2 [] ty = "Boolean" -> 3 [] ty = "Utf8" -> 4
      [] OTHER -> 5
HashValue(ty, v) ==
    << (v * 25117 + TypeSalt(ty) * 4099 + 911) % 32768,
       (v * 30011 + TypeSalt(ty) * 263 + 77) % Limb,
       (v * 12289 + TypeSalt(ty) * 9973 + 5) % Limb,
       (v * 40503 + TypeSalt(ty) * 7919 + 12345) % Limb >>

\* u64 addition wrapping at 2^64 (PrimitiveArray<u64>::add slot by slot).
WrappingAdd(x, y) ==
    LET s4 == x[4] + y[4]
        s3 == x[3] + y[3] + s4 \div Limb
        s2 == x[2] + y[2] + s3 \div Limb
        s1 == x[1] + y[1] + s2 \div Limb
    IN  << s1 % Limb, s2 % Limb, s3 % Limb, s4 % Limb >>

HashableTypes == {"Int32", "Boolean", "Utf8", "Timestamp"}

\* group_hashes: the fold over the group-key columns, starting from the hash of
\* a zeroed u64 array, adding each column's hash array; a slot is null when
\* any column is null there.  compute::hash::hash(..).unwrap() panics on a type
\* it does not hash.
\* A faulty fold in which the hash of a value depends on its column.
RECURSIVE HashFoldByPosition(_, _, _)
HashFoldByPosition(group_keys, acc, k) ==
    IF k > Len(group_keys) THEN acc
    ELSE LET x == group_keys[k]
         IN  HashFoldByPosition(group_keys,
                      [vals  |-> [i \in DOMAIN acc.vals |->
                                     WrappingAdd(acc.vals[i], HashValue(x.ty, x.vals[i] + 3 * k))],
                       valid |-> [i \in DOMAIN acc.vals |-> acc.valid[i] /\ x.valid[i]]],
                      k + 1)
RECURSIVE HashFold(_, _, _)
HashFold(group_keys, acc, k) ==
    IF k > Len(group_keys) THEN acc
    ELSE LET x == group_keys[k]
         IN  HashFold(group_keys,
                      [vals  |-> [i \in DOMAIN acc.vals |->
                                     WrappingAdd(acc.vals[i], HashValue(x.ty, x.vals[i]))],
                       valid |-> [i \in DOMAIN acc.vals |-> acc.valid[i] /\ x.valid[i]]],
                      k + 1)
group_hashes(group_keys, length) ==
    HashFold(group_keys,
             [vals |-> Repeat(HashValue("UInt64", 0), length), valid |-> Repeat(TRUE, length)], 1)
HashPanics(group_keys) == \E k \in DOMAIN group_keys : group_keys[k].ty \notin HashableTypes

(***************************************************************************)
(* physical_expressions.rs: the accumulators.                              *)
(***************************************************************************)
NullScalar == [kind |-> "Scalar", ty |-> "Null", vals |-> <<0>>, valid |-> <<FALSE>>, err |-> ""]

\* create_accumulator(index): the state starts as a NullScalar.
create_accumulator(op, index) == [op |-> op, value |-> NullScalar, index |-> index]

SetMax(S) == CHOOSE x \in S : \A y \in S : y <= x
SetMin(S) == CHOOSE x \in S : \A y \in S : x <= y

\* compute::aggregate::max / min of an array under a validity: a scalar of the
\* array's type, null when no slot is valid.
AggregateKernel(op, array, val) ==
    LET live == {array.vals[i] : i \in {j \in DOMAIN array.vals : val[j]}}
    IN  IF live = {} THEN ScalarValue(array.ty, 0, FALSE)
        ELSE ScalarValue(array.ty, IF op = "Max" THEN SetMax(live) ELSE SetMin(live), TRUE)

AccOk(acc) == [tag |-> "ok", acc |-> acc, err |-> ""]
AccErr(acc, e) == [tag |-> "err", acc |-> acc, err |-> e]
AccPanic(acc, e) == [tag |-> "panic", acc |-> acc, err |-> e]

\* Accumulator::accumulate of MaxAccumulator / MinAccumulator: the new value is
\* the aggregate of input[index] under the validity (or the scalar itself);
\* it replaces the state when it compares gt / lt with the state, and both
\* must be Int32 or both Float64 and non-null.
accumulate(acc, input, validity) ==
    IF acc.index + 1 \notin DOMAIN input THEN AccPanic(acc, "index out of bounds")
    ELSE LET expr == input[acc.index + 1]
             new == IF expr.kind = "Array"
                    THEN AggregateKernel(acc.op, expr,
                                         [i \in DOMAIN expr.vals |-> expr.valid[i] /\ validity[i]])
                    ELSE IF expr.ty \in NumericTypes THEN expr
                    ELSE ErrValue("PhysicalTypeNotSuported")
         IN  IF new.kind = "Err" THEN AccErr(acc, new.err)
             ELSE IF new.ty = acc.value.ty /\ new.ty \in NumericTypes
             THEN IF new.valid[1] /\ acc.value.valid[1]
                  THEN LET replace == IF acc.op = "Max" THEN new.vals[1] > acc.value.vals[1]
                                      ELSE new.vals[1] < acc.value.vals[1]
                       IN  AccOk(IF replace THEN [acc EXCEPT !.value = new] ELSE acc)
                  ELSE AccErr(acc, "DowncastError")
             ELSE AccErr(acc, "PrimitiveTypeNotSuported")


(***************************************************************************)
(* AggregateExec::execute: the body of the for_each over the child's       *)
(* items, and the finalization.                                            *)
(***************************************************************************)
\* The values of a list of expressions over a batch, as collect::<Result<..>>
\* gathers them: the first error ends the collection.  With `inflate`, every
\* value goes through to_array(length), which may panic.
RECURSIVE EvaluateAll(_, _, _, _)
EvaluateAll(exprs, batch, inflate, i) ==
    IF i > Len(exprs) THEN [tag |-> "ok", values |-> <<>>, err |-> ""]
    ELSE LET Inflate(x) ==
                 IF inflate /\ x.kind \in {"Array", "Scalar"} THEN to_array(x, ChunkLen(batch))
                 ELSE x
             Gather(y) ==
                 IF y.kind = "Panic" THEN [tag |-> "panic", values |-> <<>>, err |-> y.err]
                 ELSE IF y.kind = "Err" THEN [tag |-> "err", values |-> <<>>, err |-> y.err]
                 ELSE LET rest == EvaluateAll(exprs, batch, inflate, i + 1)
                      IN  IF rest.tag = "ok" THEN [rest EXCEPT !.values = <<y>> \o @] ELSE rest
         IN  Gather(Inflate(evaluate(exprs[i], batch)))

\* Every accumulator of an entry receives accumulate(..).unwrap().
RECURSIVE AccumulateAll(_, _, _, _)
AccumulateAll(accs, input, validity, j) ==
    IF j > Len(accs) THEN [tag |-> "ok", accs |-> accs, err |-> ""]
    ELSE LET Unwrap(r) ==
                 IF r.tag # "ok" THEN [tag |-> "panic", accs |-> accs, err |-> "unwrap:" \o r.err]
                 ELSE AccumulateAll([accs EXCEPT ![j] = r.acc], input, validity, j + 1)
         IN  Unwrap(accumulate(accs[j], input, validity))

\* The loop over the rows of one batch.  st holds the hashmap, the per-batch
\* hashset and the accumulate calls made for this batch (one record per call:
\* the group's hash and the validity passed).
RECURSIVE RowLoop(_, _, _, _, _, _)
RowLoop(node, keys, hashes, input, st, i) ==
    IF i > Len(hashes.vals) \/ st.tag # "ok" THEN st
    ELSE IF ~hashes.valid[i] \/ hashes.vals[i] \in st.hashset
    THEN RowLoop(node, keys, hashes, input, st, i + 1)
    ELSE LET key == hashes.vals[i]
             validity == [r \in DOMAIN hashes.vals |-> hashes.vals[r] = key]
             fresh == [accs |-> [j \in DOMAIN node.aggs |->
                                    create_accumulator(node.aggs[j].op, j - 1)],
                       groups |-> [c \in DOMAIN keys |->
                                    MkArray(keys[c].ty, <<keys[c].vals[i]>>, <<keys[c].valid[i]>>)]]
             entry == IF key \in DOMAIN st.hashmap THEN st.hashmap[key] ELSE fresh
             Continue(done) ==
                 RowLoop(node, keys, hashes, input,
                         [tag |-> done.tag, err |-> done.err,
                          hashset |-> st.hashset \cup {key},
                          hashmap |-> [h \in DOMAIN st.hashmap \cup {key} |->
                                          IF h = key THEN [entry EXCEPT !.accs = done.accs]
                                          ELSE st.hashmap[h]],
                          calls |-> IF node.aggs = <<>> THEN st.calls
                                    ELSE Append(st.calls, [key |-> key, validity |-> validity])],
                         i + 1)
         IN  Continue(AccumulateAll(entry.accs, input, validity, 1))

\* One Ok(batch) of the child: group keys (an evaluation error leaves no key
\* column), group hashes, aggregate inputs (an error leaves none), row loop.
AggregateBatch(node, map, batch) ==
    LET length == ChunkLen(batch)
        start == [tag |-> "ok", err |-> "", hashset |-> {}, hashmap |-> map, calls |-> <<>>]
        GroupKeys(keys) ==
            IF keys.tag = "ok" THEN [c \in DOMAIN keys.values |-> AsArray(keys.values[c])]
            ELSE <<>>
        Rows(keys, group_keys, inputs) ==
            IF keys.tag = "panic" THEN [start EXCEPT !.tag = "panic", !.err = keys.err]
            ELSE IF HashPanics(group_keys)
            THEN [start EXCEPT !.tag = "panic", !.err = "unwrap:hash of an unsupported type"]
            ELSE IF inputs.tag = "panic" THEN [start EXCEPT !.tag = "panic", !.err = inputs.err]
            ELSE RowLoop(node, group_keys, group_hashes(group_keys, length),
                         IF inputs.tag = "ok" THEN inputs.values ELSE <<>>, start, 1)
        Keyed(keys) == Rows(keys, GroupKeys(keys), EvaluateAll(node.aggs, batch, FALSE, 1))
    IN  Keyed(EvaluateAll(node.exprs, batch, TRUE, 1))

\* The one-row arrays of an entry: its group keys, then final_value().unwrap()
\* .to_array(1) of every accumulator.
EntryRow(entry) ==
    entry.groups \o [j \in DOMAIN entry.accs |-> to_array(entry.accs[j].value, 1)]
EntryPanics(entry) == \E j \in DOMAIN entry.accs : to_array(entry.accs[j].value, 1).kind = "Panic"

\* A column of the output: Int32 and Float64 columns are extended from the
\* value slices, Utf8 and Boolean columns from the Option iterators.
AppendSlot(col, new) ==
    IF col.ty \in NumericTypes
    THEN MkArray(col.ty, col.vals \o new.vals, col.valid \o [i \in DOMAIN new.vals |-> TRUE])
    ELSE MkArray(col.ty, col.vals \o new.vals, col.valid \o new.valid)
EmptyColumn(ty) == MkArray(ty, <<>>, <<>>)
OutputTypes == {"Int32", "Float64", "Utf8", "Boolean"}

\* The finalization over the entries in the order the HashMap iterates.
RECURSIVE StackRows(_, _, _, _)
StackRows(map, order, columns, n) ==
    IF n > Len(order) THEN ChunkNew(columns)
    ELSE LET entry == map[order[n]]
         IN  IF EntryPanics(entry) THEN PanicItem("unwrap:ScalarToArrayError")
             ELSE LET row == EntryRow(entry)
                      m == IF Len(row) < Len(columns) THEN Len(row) ELSE Len(columns)
                  IN  IF \E c \in 1..m : row[c].ty # columns[c].ty
                      THEN PanicItem("unwrap:downcast of a column of another type")
                      ELSE StackRows(map, order,
                                     [c \in DOMAIN columns |->
                                         IF c <= m THEN AppendSlot(columns[c], row[c])
                                         ELSE columns[c]],
                                     n + 1)
Finalize(map, order) ==
    IF order = <<>> THEN PanicItem("unwrap:None")
    ELSE LET first == map[order[1]]
         IN  IF EntryPanics(first) THEN PanicItem("unwrap:ScalarToArrayError")
             ELSE LET row == EntryRow(first)
                  IN  IF \E c \in DOMAIN row : row[c].ty \notin OutputTypes
                      THEN PanicItem("unwrap:PhysicalTypeNotSuported")
                      ELSE StackRows(map, order, [c \in DOMAIN row |-> EmptyColumn(row[c].ty)], 1)


(***************************************************************************)
(* The inputs of the model: the expressions the dataframe calls are made   *)
(* with, and the projection the Scan is constructed with.                  *)
(***************************************************************************)
ScanProjections == { NoProjection, SomeProjection(<<"b", "b", "z">>) }

ProjectionMenu ==
    { <<Column("a")>>,
      <<Column("b"), Column("a")>>,
      <<LiteralInteger(1), Column("a")>>,
      <<Binary("Eq", Column("a"), LiteralInteger(1))>> }

SelectionMenu ==
    { Binary("Eq", Column("a"), LiteralInteger(1)),
      Binary("Neq", Column("a"), Column("b")),
      Binary("Eq", Column("z"), LiteralInteger(1)),
      Column("eq"),
      Column("a") }

AggregateMenu ==
    { [groups |-> <<Column("a")>>, aggs |-> <<Unary("Max", Column("b"))>>],
      [groups |-> <<Column("a"), Column("b")>>, aggs |-> <<>>],
      [groups |-> <<Column("b")>>, aggs |-> <<>>],
      [groups |-> <<Column("b")>>, aggs |-> <<Column("b")>>],
      [groups |-> <<Column("a")>>, aggs |-> <<Binary("Eq", Column("z"), LiteralInteger(1))>>] }

(***************************************************************************)
(* The pull chain.  A next() call on level k reaches down to the nearest   *)
(* level that holds items of its own: the ScanExec (level 1) or an         *)
(* AggregateIterator; every level above it maps the item it receives.      *)
(***************************************************************************)
RECURSIVE SourceLevel(_, _)
SourceLevel(nodes, k) ==
    IF nodes[k].kind \in {"Scan", "Aggregate"} THEN k ELSE SourceLevel(nodes, k - 1)

\* ScanIterator::next: the reader's next chunk, its error lifted into
\* Error::ArrowError, or None at the end of the file.
ScanItems(projection) ==
    {BatchItem(ScanChunk(rows, projection)) : rows \in RowsOfBatches}
        \cup {ErrItem("ArrowError")}

\* The items of the levels j..k when level j yields src (idle elsewhere).
RECURSIVE Chain(_, _, _, _)
Chain(nodes, acc, l, k) ==
    IF l > k THEN acc
    ELSE LET item == IF nodes[l].kind = "Projection" THEN ProjectionNext(nodes[l].exprs, acc[l - 1])
                     ELSE SelectionNext(nodes[l].exprs[1], acc[l - 1])
         IN  Chain(nodes, [acc EXCEPT ![l] = item], l + 1, k)
NextChain(nodes, src, j, k) ==
    Chain(nodes, [i \in DOMAIN nodes |-> IF i = j THEN src ELSE IdleItem], j + 1, k)

\* What the source level j may yield in the current state: the item, and the
\* rows of the file it was read from.
Sources(j) ==
    IF j > 1 THEN {[item |-> output[j], rows |-> file]}
    ELSE IF scanned < MaxBatches
    THEN {[item |-> BatchItem(ScanChunk(rows, physical[1].projection)), rows |-> rows] :
             rows \in RowsOfBatches}
         \cup {[item |-> i, rows |-> <<>>] : i \in {ErrItem("ArrowError"), NoneItem}}
    ELSE {[item |-> NoneItem, rows |-> <<>>]}
ScannedAfter(j, src) ==
    IF j > 1 THEN scanned ELSE IF src.tag = "none" THEN MaxBatches ELSE scanned + 1
OutputAfter(j) == IF j > 1 THEN [output EXCEPT ![j] = NoneItem] ELSE output

\* The histories after a next() chain with the items tr.
EmittedAfter(tr) ==
    [l \in DOMAIN emitted |-> emitted[l] + IF tr[l].tag \in {"batch", "err"} THEN 1 ELSE 0]
FirstErr(tr) ==
    LET errs == {l \in DOMAIN tr : tr[l].tag = "err"}
    IN  IF errs = {} THEN "" ELSE tr[CHOOSE l \in errs : \A m \in errs : l <= m].err
\* The error of the first failing group-key or aggregate-input evaluation of an
\* AggregateExec on an item.
EvaluationError(node, item) ==
    LET First(keys, inputs) ==
            IF keys.tag = "err" THEN keys.err ELSE IF inputs.tag = "err" THEN inputs.err ELSE ""
    IN  IF item.tag # "batch" THEN ""
        ELSE First(EvaluateAll(node.exprs, item.cols, TRUE, 1),
                   EvaluateAll(node.aggs, item.cols, FALSE, 1))
RaisedAfter(tr, inner) ==
    IF raised # "" THEN raised ELSE IF FirstErr(tr) # "" THEN FirstErr(tr) ELSE inner

(***************************************************************************)
(* The state machine.                                                      *)
(***************************************************************************)
NoCall == [fn |-> "none"]
NoBatch == [level |-> 0, batch |-> <<>>, calls |-> <<>>, map |-> <<>>]
NoPlan == <<>>
MaxOptimize == 2    \* optimize() calls on one plan

Init ==
    /\ \E p \in ScanProjections : plan = <<ScanNode(p)>>
    /\ before = NoPlan
    /\ optimized = 0
    /\ physical = <<>>
    /\ pc = "build"
    /\ built = 0
    /\ scanned = 0
    /\ hashmap = <<>>
    /\ output = <<>>
    /\ trace = <<>>
    /\ results = 0
    /\ failure = ""
    /\ seen = [level |-> 0, rows |-> {}]
    /\ file = <<>>
    /\ emitted = <<>>
    /\ raised = ""
    /\ call = NoCall
    /\ accumulated = NoBatch

\* DataFrame::project.  Projection::new panics when a field cannot be derived;
\* then no dataframe exists, so the call is modelled only where it returns.
Project ==
    /\ pc = "build" /\ Len(plan) - 1 < MaxOps
    /\ \E exprs \in ProjectionMenu :
          /\ CanConstruct("Projection", exprs, <<>>, plan)
          /\ plan' = NewNode("Projection", exprs, <<>>, plan)
    /\ UNCHANGED <<call, accumulated, before, optimized, physical, pc, built, scanned, hashmap, output,
                   trace, results, failure, seen, file, emitted, raised>>

\* DataFrame::filter
Filter ==
    /\ pc = "build" /\ Len(plan) - 1 < MaxOps
    /\ \E expr \in SelectionMenu :
          /\ CanConstruct("Selection", <<expr>>, <<>>, plan)
          /\ plan' = NewNode("Selection", <<expr>>, <<>>, plan)
    /\ UNCHANGED <<call, accumulated, before, optimized, physical, pc, built, scanned, hashmap, output,
                   trace, results, failure, seen, file, emitted, raised>>

\* DataFrame::aggregate
Aggregate ==
    /\ pc = "build" /\ Len(plan) - 1 < MaxOps
    /\ \E m \in AggregateMenu :
          /\ CanConstruct("Aggregate", m.groups, m.aggs, plan)
          /\ plan' = NewNode("Aggregate", m.groups, m.aggs, plan)
    /\ UNCHANGED <<call, accumulated, before, optimized, physical, pc, built, scanned, hashmap, output,
                   trace, results, failure, seen, file, emitted, raised>>

\* LogicalPlan::optimize on the dataframe's plan.
Optimize ==
    /\ pc \in {"build", "optimized"} /\ optimized < MaxOptimize
    /\ \E names \in Orderings(PushDownSet(plan)) :
          IF PushDownPanics(plan, names)
          THEN /\ pc' = "panic" /\ failure' = "unwrap:NoFieldInLogicalPlan"
               /\ UNCHANGED <<plan, before, optimized>>
          ELSE /\ plan' = push_down(plan, names)
               /\ before' = plan
               /\ optimized' = optimized + 1
               /\ pc' = "optimized"
               /\ UNCHANGED failure
    /\ UNCHANGED <<call, accumulated, physical, built, scanned, hashmap, output, trace, results, seen,
                   file, emitted, raised>>

\* self.plan.to_physical_plan()? on the current plan.
LowerPlan ==
    /\ \E r \in {to_physical_plan(plan, Len(plan))} :
           IF r.ok
           THEN /\ physical' = r.nodes
                /\ output' = [i \in DOMAIN r.nodes |-> NoneItem]
                /\ trace' = [i \in DOMAIN r.nodes |-> IdleItem]
                /\ emitted' = [i \in DOMAIN r.nodes |-> 0]
                /\ pc' = "exec"
                /\ UNCHANGED failure
           ELSE /\ pc' = "failed" /\ failure' = r.err
                /\ UNCHANGED <<physical, output, trace, emitted>>
    /\ UNCHANGED <<call, accumulated, plan, before, optimized, built, scanned, hashmap, results, seen,
                   file, raised>>

\* DataFrame::execute, first step: the dataframe's plan, which no caller of
\* the crate optimizes, is lowered.
Lower == pc = "build" /\ LowerPlan

\* The plan optimize() returned is lowered and executed with the same
\* functions: optimize().to_physical_plan()?.execute().collect().
LowerOptimized == pc = "optimized" /\ LowerPlan

\* ScanExec::execute, ProjectionExec::execute, SelectionExec::execute: the
\* iterator over the (already built) child iterator is returned.
ExecuteNode ==
    /\ pc = "exec" /\ built < Len(physical)
    /\ physical[built + 1].kind # "Aggregate"
    /\ built' = built + 1
    /\ UNCHANGED <<call, accumulated, plan, before, optimized, physical, pc, scanned, hashmap, output,
                   trace, results, failure, seen, file, emitted, raised>>

\* AggregateExec::execute begins: an empty HashMap, then the for_each.
ExecuteAggregate ==
    /\ pc = "exec" /\ built < Len(physical)
    /\ physical[built + 1].kind = "Aggregate"
    /\ pc' = "drain"
    /\ hashmap' = <<>>
    /\ seen' = [level |-> built + 1, rows |-> {}]
    /\ accumulated' = NoBatch
    /\ UNCHANGED <<call, plan, before, optimized, physical, built, scanned, output,
                   trace, results, failure, file, emitted, raised>>

\* One iteration of the for_each of AggregateExec::execute: the child's next
\* item is an Ok(batch), which updates the hashmap, or an Err, which is dropped.
AggregateConsume ==
    /\ pc = "drain"
    /\ LET j == SourceLevel(physical, built)
       IN  \E s \in Sources(j) :
             \E tr \in {NextChain(physical, s.item, j, built)} :
             \E r \in {AggregateBatch(physical[built + 1], hashmap, tr[built].cols)} :
                 /\ tr[built].tag # "none"
                 /\ trace' = tr
                 /\ scanned' = ScannedAfter(j, s.item)
                 /\ output' = OutputAfter(j)
                 /\ file' = s.rows
                 /\ emitted' = EmittedAfter(tr)
                 /\ raised' = RaisedAfter(tr, EvaluationError(physical[built + 1], tr[built]))
                 /\ IF tr[built].tag = "panic"
                    THEN pc' = "panic" /\ failure' = tr[built].err /\ UNCHANGED hashmap
                    ELSE IF tr[built].tag = "err"
                    THEN UNCHANGED <<pc, failure, hashmap>>
                    ELSE IF r.tag = "panic"
                    THEN pc' = "panic" /\ failure' = r.err /\ UNCHANGED hashmap
                    ELSE hashmap' = r.hashmap /\ UNCHANGED <<pc, failure>>
                 /\ seen' = IF tr[built].tag = "batch"
                            THEN [seen EXCEPT !.rows = @ \cup RowsOfChunk(tr[built].cols)]
                            ELSE seen
                 /\ accumulated' = IF tr[built].tag = "batch"
                                   THEN [level |-> built + 1, batch |-> tr[built].cols,
                                         calls |-> r.calls, map |-> hashmap]
                                   ELSE NoBatch
    /\ UNCHANGED <<call, plan, before, optimized, physical, built, results>>

\* The child is exhausted: the finalization of AggregateExec::execute, which
\* returns the AggregateIterator holding the one output batch.
AggregateFinish ==
    /\ pc = "drain"
    /\ LET j == SourceLevel(physical, built)
       IN  \E s \in Sources(j) :
             \E tr \in {NextChain(physical, s.item, j, built)} :
                 /\ tr[built].tag = "none"
                 /\ trace' = tr
                 /\ scanned' = ScannedAfter(j, s.item)
                 /\ file' = s.rows
                 /\ emitted' = EmittedAfter(tr)
                 /\ raised' = RaisedAfter(tr, "")
                 /\ \E order \in Orderings(DOMAIN hashmap) :
                       \E out \in {Finalize(hashmap, order)} :
                           IF out.tag = "panic"
                           THEN /\ pc' = "panic" /\ failure' = out.err
                                /\ output' = OutputAfter(j)
                                /\ UNCHANGED <<built, hashmap>>
                           ELSE /\ output' = [OutputAfter(j) EXCEPT ![built + 1] = out]
                                /\ built' = built + 1
                                /\ pc' = "exec"
                                /\ UNCHANGED <<failure, hashmap>>
    /\ accumulated' = NoBatch
    /\ UNCHANGED <<call, plan, before, optimized, physical, results, seen>>

\* PhysicalPlan::execute has returned the root iterator; collect() starts.
StartCollect ==
    /\ pc = "exec" /\ built = Len(physical)
    /\ pc' = "iter"
    /\ UNCHANGED <<call, accumulated, plan, before, optimized, physical, built, scanned, hashmap, output,
                   trace, results, failure, seen, file, emitted, raised>>

\* One next() of collect::<Result<Vec<_>, _>>() on the root iterator: a batch
\* is pushed, the first Err ends the collection and is returned, None ends it.
Collect ==
    /\ pc = "iter"
    /\ LET n == Len(physical)
           j == SourceLevel(physical, n)
       IN  \E s \in Sources(j) :
             \E tr \in {NextChain(physical, s.item, j, n)} :
                 /\ trace' = tr
                 /\ scanned' = ScannedAfter(j, s.item)
                 /\ output' = OutputAfter(j)
                 /\ file' = s.rows
                 /\ emitted' = EmittedAfter(tr)
                 /\ raised' = RaisedAfter(tr, "")
                 /\ IF tr[n].tag = "batch"
                    THEN results' = results + 1 /\ UNCHANGED <<pc, failure>>
                    ELSE IF tr[n].tag = "none"
                    THEN pc' = "done" /\ UNCHANGED <<results, failure>>
                    ELSE IF tr[n].tag = "err"
                    THEN pc' = "done" /\ failure' = tr[n].err /\ UNCHANGED results
                    ELSE pc' = "panic" /\ failure' = tr[n].err /\ UNCHANGED results
    /\ UNCHANGED <<call, accumulated, plan, before, optimized, physical, built, hashmap, seen>>

Next ==
    \/ Project
    \/ Filter
    \/ Aggregate
    \/ Optimize
    \/ Lower
    \/ ExecuteNode
    \/ ExecuteAggregate
    \/ AggregateConsume
    \/ AggregateFinish
    \/ StartCollect
    \/ Collect

Spec == Init /\ [][Next]_vars

\* The executions of the dataframe's plans and of the plans optimize() returns.
NextOptimized == Next \/ LowerOptimized
SpecOptimized == Init /\ [][NextOptimized]_vars


(***************************************************************************)
(* Calls of single functions of the crate, one call in a behaviour, on     *)
(* inputs drawn from the sets below: the physical expressions are built    *)
(* from the leaves with every comparison and arithmetic operator, one      *)
(* level nested; the batches are the batches of the file with all three    *)
(* columns.                                                                *)
(***************************************************************************)
dataframe == <<plan, before, optimized, physical, pc, built, scanned, hashmap, output,
               trace, results, failure, seen, file, emitted, raised, accumulated>>

EvaluateLeaves ==
    { ColumnExpression(0), ColumnExpression(1), ColumnExpression(2),
      LiteralIntegerExpression(2), LiteralIntegerExpression(0), LiteralBoolExpression(TRUE) }
EvaluateShallow ==
    { BinaryExpression(op, l, r) : op \in ComparisonOps \cup MathOps,
                                   l \in EvaluateLeaves, r \in EvaluateLeaves }
EvaluateNested ==
    { BinaryExpression(op, BinaryExpression("Sub", l, r), x) :
          op \in {"Add", "Eq"}, l \in EvaluateLeaves, r \in EvaluateLeaves, x \in EvaluateLeaves }
EvaluateMenu ==
    EvaluateLeaves \cup EvaluateShallow \cup EvaluateNested
        \cup { UnaryExpression(op, l) : op \in AggregateOps, l \in EvaluateLeaves }

\* PhysicalExpression::evaluate on a batch of the file.
Evaluate ==
    /\ call = NoCall
    /\ \E expr \in EvaluateMenu, rows \in RowsOfBatches :
          \E input \in {ScanChunk(rows, NoProjection)} :
              call' = [fn |-> "evaluate", expr |-> expr, input |-> input,
                       result |-> evaluate(expr, input)]
    /\ UNCHANGED dataframe

\* The projection lists a Scan is constructed with: any order, duplicates and
\* names the file lacks.
MaxNames == 3
ProjectionLists ==
    {NoProjection} \cup {SomeProjection(names) : names \in SeqsUpTo({"a", "b", "c", "z"}, MaxNames)}

\* Scan::new, and ParquetDataSource::scan with the Scan's projection: the
\* Scan's schema and the chunk the reader yields for a batch of the file.
ScanFile ==
    /\ call = NoCall
    /\ \E projection \in ProjectionLists, rows \in RowsOfBatches :
          call' = [fn |-> "scan", projection |-> projection, rows |-> rows,
                   schema |-> ScanNode(projection).schema,
                   chunk |-> ScanChunk(rows, projection)]
    /\ UNCHANGED dataframe

\* One call of LogicalExpression::to_physical_expression on a comparison or
\* arithmetic expression (its operands: columns, literals, or one more level of
\* such an expression) against the schema of a Scan.
LoweringOps == {"Eq", "Neq", "Gt", "GtEq", "Lt", "LtEq", "Add", "Sub", "Mul", "Div"}
LoweringLeaves == {Column("a"), Column("b"), Column("z"), LiteralInteger(1), LiteralBool(TRUE)}
LoweringShallow == {Binary(op, l, r) : op \in LoweringOps, l \in LoweringLeaves, r \in LoweringLeaves}
LoweringNested ==
    {Binary(op, Binary(inner, Column("a"), l), r) :
        op \in LoweringOps, inner \in {"Eq", "Lt", "Sub"}, l \in LoweringLeaves, r \in LoweringLeaves}
LoweringMenu == LoweringShallow \cup LoweringNested
LowerExpression ==
    /\ call = NoCall
    /\ \E expr \in LoweringMenu, projection \in {NoProjection, SomeProjection(<<"a", "b">>)} :
          \E schema \in {ScanNode(projection).schema} :
              call' = [fn |-> "to_physical_expression", expr |-> expr, schema |-> schema,
                       result |-> to_physical_expression(expr, schema)]
    /\ UNCHANGED dataframe

\* One call of SelectionIterator::next whose child yields a batch of the scan:
\* the predicate is a literal, a comparison of literals (a Scalar), or a
\* comparison with a column (an Array).
PredicateMenu ==
    { LiteralBoolExpression(TRUE), LiteralBoolExpression(FALSE), LiteralIntegerExpression(1),
      ColumnExpression(0) }
        \cup { BinaryExpression(op, l, r) :
                 op \in ComparisonOps,
                 l \in {LiteralIntegerExpression(1), LiteralBoolExpression(TRUE), ColumnExpression(0)},
                 r \in {LiteralIntegerExpression(1), LiteralIntegerExpression(2)} }
SelectBatch ==
    /\ call = NoCall
    /\ \E expr \in PredicateMenu, rows \in RowsOfBatches :
          \E input \in {ScanChunk(rows, NoProjection)} :
              call' = [fn |-> "next", expr |-> expr, input |-> input,
                       result |-> SelectionNext(expr, BatchItem(input))]
    /\ UNCHANGED dataframe

NextCalls ==
    \/ Evaluate
    \/ ScanFile
    \/ LowerExpression
    \/ SelectBatch

SpecCalls == Init /\ [][NextCalls]_vars


(***************************************************************************)
(* Properties.  trace holds, for the last next() chain, the item every     *)
(* level returned: trace[l - 1] is the input of level l, trace[l] its      *)
(* output.                                                                 *)
(***************************************************************************)
\* The chunk made of the rows idx of a chunk.
RowsOf(chunk, idx) ==
    [c \in DOMAIN chunk |-> MkArray(chunk[c].ty, [j \in DOMAIN idx |-> chunk[c].vals[idx[j]]],
                                    [j \in DOMAIN idx |-> chunk[c].valid[idx[j]]])]
\* The predicate re-evaluated on row i alone is a non-null true.
HoldsAt(expr, chunk, i) ==
    LET IsTrue(v) == v.kind \in {"Array", "Scalar"} /\ v.ty = "Boolean" /\ v.valid[1] /\ v.vals[1] = 1
    IN  IsTrue(evaluate(expr, RowSlice(chunk, i)))
RowsWhere(expr, chunk) ==
    SelectSeq([i \in 1..ChunkLen(chunk) |-> i], LAMBDA i : HoldsAt(expr, chunk, i))
SelectionLevels ==
    {l \in DOMAIN trace : physical[l].kind = "Selection" /\ trace[l].tag = "batch"}

\* C1: the batch a SelectionExec emits for an input batch B consists of exactly
\* the rows of B on which the predicate re-evaluates to true, in B's order; rows
\* where it is false or null are dropped.
C1_FilterSoundness ==
    \A l \in SelectionLevels :
        trace[l].cols = RowsOf(trace[l - 1].cols,
                               RowsWhere(physical[l].exprs[1], trace[l - 1].cols))
\* A Selection received two rows, one of them with a null predicate, and emitted one.
C1_Witness ==
    \E l \in SelectionLevels :
        /\ ChunkLen(trace[l - 1].cols) = 2 /\ ChunkLen(trace[l].cols) = 1
        /\ \E i \in 1..2 : \E c \in DOMAIN trace[l - 1].cols : ~trace[l - 1].cols[c].valid[i]


(***************************************************************************)
(* Aggregation, stated over the rows the AggregateExec received (seen).    *)
(***************************************************************************)
\* The value (value slot, validity) of an expression on a one-row chunk.
ValueAt(expr, row) ==
    LET Slot(v) == <<v.vals[1], v.valid[1]>>
    IN  Slot(evaluate(expr, row))
GroupKey(node, row) == [c \in DOMAIN node.exprs |-> ValueAt(node.exprs[c], row)]
GroupsSeen(node) == {GroupKey(node, row) : row \in seen.rows}
\* The maximum / minimum of aggregate j over the rows of group g.
Best(node, j, g) ==
    LET vs == {ValueAt(node.aggs[j], row)[1] :
                  row \in {r \in seen.rows : GroupKey(node, r) = g /\ ValueAt(node.aggs[j], r)[2]}}
    IN  IF vs = {} THEN <<0, FALSE>>
        ELSE <<IF node.aggs[j].op = "Max" THEN SetMax(vs) ELSE SetMin(vs), TRUE>>
ExpectedRow(node, g) == g \o [j \in DOMAIN node.aggs |-> Best(node, j, g)]
RowValues(chunk, i) == [c \in DOMAIN chunk |-> <<chunk[c].vals[i], chunk[c].valid[i]>>]
\* The levels of AggregateExec nodes whose execute() call is the one seen describes.
AggregateLevels == {l \in DOMAIN physical : physical[l].kind = "Aggregate" /\ seen.level = l}
\* execute() of the AggregateExec at level l unwound.
Unwound(l) == pc = "panic" /\ built = l - 1

\* C2: an AggregateExec with Max / Min aggregates comes to the end of its child
\* and then emits, for every group of the rows it received, a row holding the
\* maximum / minimum of the aggregated expression over the rows of the group.
C2_MaxPerGroup ==
    \A l \in AggregateLevels :
        physical[l].aggs # <<>> =>
            /\ ~(Unwound(l) /\ seen.rows # {})
            /\ output[l].tag = "batch" =>
                  \A g \in GroupsSeen(physical[l]) :
                      \E i \in 1..ChunkLen(output[l].cols) :
                          RowValues(output[l].cols, i) = ExpectedRow(physical[l], g)


\* C3: the batch an AggregateExec emits has as many rows as its group map has
\* entries, and as many as there are distinct group-key tuples among the rows
\* it received.
C3_AggregateRowCount ==
    \A l \in AggregateLevels :
        output[l].tag = "batch" =>
            /\ ChunkLen(output[l].cols) = Cardinality(DOMAIN hashmap)
            /\ Cardinality(DOMAIN hashmap) = Cardinality(GroupsSeen(physical[l]))

(***************************************************************************)
(* Projection push down.  In a state reached by optimize(), before is the  *)
(* plan the call consumed and plan the one it returned.                    *)
(***************************************************************************)
\* name is the name of a Column leaf of expr.
RECURSIVE IsColumnLeaf(_, _)
IsColumnLeaf(name, expr) ==
    \/ expr.op = "Column" /\ expr.name = name
    \/ \E i \in DOMAIN expr.args : IsColumnLeaf(name, expr.args[i])
Names == {"a", "b", "c", "z", "eq", "max", "1"}
LeavesAbove(p) ==
    {name \in Names : \E k \in 2..Len(p) : \E i \in DOMAIN (p[k].exprs \o p[k].aggs) :
                          IsColumnLeaf(name, (p[k].exprs \o p[k].aggs)[i])}
ProjectionSet(p) == IF p[1].projection.some THEN Range(p[1].projection.names) ELSE {}

\* C4: after optimize the Scan's projection contains the name of every Column
\* leaf of the expressions of the nodes above the Scan.
C4_PushdownSoundness ==
    optimized >= 1 => plan[1].projection.some /\ LeavesAbove(plan) \subseteq ProjectionSet(plan)
\* optimize() ran on a plan whose upper nodes mention two columns.
C4_Witness == optimized >= 1 /\ Cardinality(LeavesAbove(plan)) >= 2 /\ ~before[1].projection.some

\* C5: optimize sets the Scan's projection to exactly the union of the Scan's
\* original projection (if any) and the names of the Column leaves above the
\* Scan; every name occurs once.
C5_PushdownExact ==
    optimized >= 1 =>
        /\ plan[1].projection.some
        /\ ProjectionSet(plan) = ProjectionSet(before) \cup LeavesAbove(before)
        /\ Len(plan[1].projection.names) = Cardinality(ProjectionSet(plan))
\* optimize() ran on a plan whose Scan had a projection of its own, with a
\* repeated name, under a node that mentions another column.
C5_Witness ==
    /\ optimized = 1 /\ before[1].projection.some
    /\ Len(before[1].projection.names) > Cardinality(ProjectionSet(before))
    /\ LeavesAbove(before) \ ProjectionSet(before) # {}

\* The plans p and q are the same tree: node kinds, expressions and schemas
\* agree, and the Scans' projections agree as sets.
SamePlan(p, q) ==
    /\ Len(p) = Len(q)
    /\ \A k \in 2..Len(p) : p[k] = q[k]
    /\ p[1].kind = q[1].kind /\ p[1].schema = q[1].schema
    /\ p[1].projection.some = q[1].projection.some
    /\ ProjectionSet(p) = ProjectionSet(q)

\* C6: optimize is idempotent: optimizing an optimized plan returns the same
\* tree, expressions and schemas, and the same Scan projection as a set.
C6_OptimizeIdempotent == optimized >= 2 => SamePlan(before, plan)
\* optimize() ran twice on a plan with nodes above the Scan and a non-empty projection.
C6_Witness == optimized >= 2 /\ Len(plan) >= 2 /\ ProjectionSet(plan) # {}

\* C7 as stated: optimize returns the input plan with nothing changed but the
\* Scan's projection.
C7_OnlyProjectionDiffers ==
    optimized >= 1 =>
        /\ Len(plan) = Len(before)
        /\ \A k \in DOMAIN plan : [plan[k] EXCEPT !.projection = before[k].projection] = before[k]
\* C7, amended: optimize keeps the node kinds, their order and every node's
\* expressions; the nodes above the Scan are returned unchanged, and the Scan
\* differs in its projection and in the schema Scan::new derives from it.
C7_TreePreserved ==
    optimized >= 1 =>
        /\ Len(plan) = Len(before)
        /\ \A k \in 2..Len(plan) : plan[k] = before[k]
        /\ [plan[1] EXCEPT !.projection = before[1].projection, !.schema = before[1].schema]
               = before[1]
        /\ plan[1].schema = ScanDeriveSchema(plan[1].projection)
\* optimize() ran on a plan of three nodes and narrowed the Scan's schema.
C7_Witness ==
    optimized >= 1 /\ Len(plan) = 3 /\ Len(plan[1].schema) < Len(before[1].schema)

(***************************************************************************)
(* Batches.                                                                *)
(***************************************************************************)
\* C8: every batch a plan emits has as many arrays as the plan's schema has
\* fields, all of the same length (for the plan rooted at any level).
C8_SchemaFidelity ==
    \A l \in DOMAIN trace :
        trace[l].tag = "batch" =>
            /\ Len(trace[l].cols) = Len(physical[l].schema)
            /\ \A c \in DOMAIN trace[l].cols : ArrayLen(trace[l].cols[c]) = ChunkLen(trace[l].cols)

\* C9: the batch a SelectionExec emits for an input batch has the same number
\* of columns and at most as many rows.
C9_SelectionShape ==
    \A l \in SelectionLevels :
        /\ Len(trace[l].cols) = Len(trace[l - 1].cols)
        /\ \A c \in DOMAIN trace[l].cols :
              ArrayLen(trace[l].cols[c]) <= ChunkLen(trace[l - 1].cols)
\* A Selection received a batch of three columns and two rows and dropped both rows.
C9_Witness ==
    \E l \in SelectionLevels :
        /\ Len(trace[l - 1].cols) = 3 /\ ChunkLen(trace[l - 1].cols) = 2
        /\ ChunkLen(trace[l].cols) = 0

ProjectionLevels ==
    {l \in DOMAIN trace : physical[l].kind = "Projection" /\ trace[l].tag = "batch"}

\* C10: the batch a ProjectionExec emits for an input batch of length N has one
\* array per expression, in order; array i has length N and holds in every slot
\* the value of exprs[i] on that row, a scalar's value being repeated N times.
C10_ProjectionArrays ==
    \A l \in ProjectionLevels :
        LET B == trace[l - 1].cols
            out == trace[l].cols
            exprs == physical[l].exprs
        IN  /\ Len(out) = Len(exprs)
            /\ \A i \in DOMAIN exprs :
                  /\ ArrayLen(out[i]) = ChunkLen(B)
                  /\ \A r \in 1..ChunkLen(B) :
                        <<out[i].vals[r], out[i].valid[r]>> = ValueAt(exprs[i], RowSlice(B, r))
\* A Projection with a literal among its expressions emitted a batch for two rows.
C10_Witness ==
    \E l \in ProjectionLevels :
        /\ ChunkLen(trace[l - 1].cols) = 2
        /\ \E i \in DOMAIN physical[l].exprs : physical[l].exprs[i].op = "LiteralInteger"


(***************************************************************************)
(* C11.  One item out for one item in.                                     *)
(***************************************************************************)
StreamLevels ==
    {l \in DOMAIN physical : physical[l].kind \in {"Projection", "Selection"}}
Emits(item) == item.tag \in {"batch", "err"}

\* C11: ProjectionExec and SelectionExec pull exactly one item of their child
\* per next() and emit exactly one item for it: at every moment a Projection or
\* Selection level has emitted as many items as its child, its last item is a
\* batch or an error exactly when its child's last item is one (an Err is
\* handed on unchanged, a batch of n rows gives a batch of n rows under a
\* Projection and of at most n rows under a Selection), it ends exactly when
\* its child ends, and the batch the ScanExec emitted last is the batch the
\* reader read last, projected.
C11_OneItemPerItem ==
    physical # <<>> =>
        /\ \A l \in StreamLevels :
               /\ emitted[l] = emitted[l - 1]
               /\ Emits(trace[l]) <=> Emits(trace[l - 1])
               /\ trace[l].tag = "none" <=> trace[l - 1].tag = "none"
               /\ trace[l - 1].tag = "err" => trace[l] = trace[l - 1]
               /\ trace[l].tag = "batch" =>
                      IF physical[l].kind = "Projection"
                      THEN ChunkLen(trace[l].cols) = ChunkLen(trace[l - 1].cols)
                      ELSE RowsOfChunk(trace[l].cols) \subseteq RowsOfChunk(trace[l - 1].cols)
        /\ emitted[1] <= scanned
        /\ trace[1].tag = "batch" => trace[1].cols = ScanChunk(file, physical[1].projection)
\* A Selection over a Projection has each emitted two items, the second of
\* them a batch with no row made from a batch with rows.
C11_Witness ==
    /\ Len(physical) >= 3
    /\ physical[2].kind = "Projection" /\ physical[3].kind = "Selection"
    /\ emitted[3] = 2 /\ emitted[1] = 2
    /\ trace[3].tag = "batch" /\ trace[2].tag = "batch"
    /\ ChunkLen(trace[3].cols) = 0 /\ ChunkLen(trace[2].cols) > 0


(***************************************************************************)
(* C12.  The one batch of an AggregateExec.                                *)
(***************************************************************************)
AllAggregateLevels == {l \in DOMAIN physical : physical[l].kind = "Aggregate"}
\* The child of level l has yielded None.
ChildExhausted(l) ==
    LET j == SourceLevel(physical, l - 1)
    IN  IF j = 1 THEN scanned = MaxBatches ELSE output[j].tag = "none" /\ emitted[j] = 1
\* What holds of an AggregateExec whose execute returns.
C12_Protocol(l) ==
    /\ emitted[l] <= 1
    /\ built >= l => ChildExhausted(l)
    /\ emitted[l] = 1 => output[l].tag = "none"
    /\ output[l].tag \in {"batch", "none"}
    /\ pc = "done" => emitted[l] = 1

\* C12: an AggregateExec emits exactly one batch, made after its child has
\* yielded None, and nothing after it: its execute returns (it does not
\* unwind), the batch it holds exists only once the child is exhausted, at
\* most one item is ever taken from it, and a completed execution has taken
\* exactly one.
C12_ExactlyOneBatch ==
    \A l \in AllAggregateLevels : ~Unwound(l) /\ C12_Protocol(l)


(***************************************************************************)
(* C13.  Errors reach the caller.                                          *)
(***************************************************************************)
\* C13: no operator catches an error: when an operator's child has yielded an
\* Err or an expression evaluation has failed on a batch, an execution that
\* returns to the caller returns that first Err (and so no batches).
C13_FirstErrReturned ==
    (pc = "done" /\ raised # "") => failure = raised


(***************************************************************************)
(* C14.  Failures of an execution are Error values.                        *)
(***************************************************************************)
\* C14: no step of executing a physical plan aborts the program: once the
\* plan is lowered, the execution never unwinds (a failure is an Err item or
\* the Err that execute returns).
C14_NoAbort ==
    physical # <<>> => pc # "panic"


(***************************************************************************)
(* C15.  An AggregateExec without input rows.                              *)
(***************************************************************************)
\* The AggregateExec of level l has drained its child and received no row.
DrainedEmpty(l) ==
    /\ seen.level = l /\ seen.rows = {}
    /\ pc \in {"panic", "exec"} /\ built \in {l - 1, l}
    /\ trace[l - 1].tag = "none"

\* C15: when the child of an AggregateExec yields no batch, or only batches
\* without rows, the AggregateExec does not abort and emits no row: it holds
\* one batch of zero rows or the error EmptyHashmapForAggregate.
C15_EmptyInput ==
    \A l \in AllAggregateLevels :
        DrainedEmpty(l) =>
            /\ pc # "panic"
            /\ \/ output[l].tag = "batch" /\ ChunkLen(output[l].cols) = 0
               \/ output[l].tag = "err" /\ output[l].err = "EmptyHashmapForAggregate"


(***************************************************************************)
(* C16.  The steps of DataFrame::execute.                                  *)
(***************************************************************************)
\* C16: execute applies projection pushdown before it lowers the plan: the
\* ScanExec of the physical plan carries the pushed-down projection (the
\* names the dataframe's Scan was built with and the names of the Column
\* leaves above it), also when the caller has not optimized the plan.
C16_ExecuteOptimizes ==
    physical # <<>> =>
        /\ physical[1].projection.some
        /\ Range(physical[1].projection.names) = ProjectionSet(plan) \cup LeavesAbove(plan)


(***************************************************************************)
(* C17, C18.  Lowering.  The defect of a plan is stated on the logical     *)
(* plan alone: the lowering visits the topmost node first, its group (or   *)
(* projection, or predicate) expressions before its aggregate expressions, *)
(* each list from left to right.                                           *)
(***************************************************************************)
NamesOf(schema) == {schema[i].name : i \in DOMAIN schema}
AbsentColumn(expr, schema) == \E name \in Names \ NamesOf(schema) : IsColumnLeaf(name, expr)
NotAnAggregate(expr) == expr.op \notin {"Max", "Min"}
FirstDefective(exprs, schema, aggregate) ==
    LET bad == {i \in DOMAIN exprs :
                   AbsentColumn(exprs[i], schema) \/ (aggregate /\ NotAnAggregate(exprs[i]))}
    IN  IF bad = {} THEN 0 ELSE CHOOSE i \in bad : \A j \in bad : i <= j
NodeDefect(p, k) ==
    LET g == FirstDefective(p[k].exprs, p[k - 1].schema, FALSE)
        a == FirstDefective(p[k].aggs, p[k - 1].schema, TRUE)
    IN  IF g > 0 THEN "NoFieldInLogicalPlan"
        ELSE IF a = 0 THEN ""
        ELSE IF NotAnAggregate(p[k].aggs[a]) THEN "PhysicalExpressionNotSuported"
        ELSE "NoFieldInLogicalPlan"
PlanDefect(p) ==
    LET bad == {k \in 2..Len(p) : NodeDefect(p, k) # ""}
    IN  IF bad = {} THEN "" ELSE NodeDefect(p, CHOOSE k \in bad : \A j \in bad : k >= j)
\* The physical expression pexpr is the logical expression lexpr with every
\* Column(name) replaced by the ColumnExpression of the ordinal position of
\* the first field of the schema called name.
RECURSIVE Corresponds(_, _, _)
Corresponds(lexpr, pexpr, schema) ==
    IF lexpr.op = "Column"
    THEN /\ pexpr.op = "Column"
         /\ pexpr.index + 1 \in DOMAIN schema
         /\ schema[pexpr.index + 1].name = lexpr.name
         /\ \A j \in 1..pexpr.index : schema[j].name # lexpr.name
    ELSE /\ pexpr.op = lexpr.op /\ pexpr.value = lexpr.value
         /\ Len(pexpr.args) = Len(lexpr.args)
         /\ \A i \in DOMAIN lexpr.args : Corresponds(lexpr.args[i], pexpr.args[i], schema)
AllCorrespond(lexprs, pexprs, schema) ==
    /\ Len(lexprs) = Len(pexprs)
    /\ \A i \in DOMAIN lexprs : Corresponds(lexprs[i], pexprs[i], schema)
LoweringRan == pc \notin {"build", "optimized"}

C18_AggregateLowering ==
    /\ physical # <<>> =>
           \A k \in 2..Len(plan) : \A i \in DOMAIN plan[k].aggs :
               /\ ~NotAnAggregate(plan[k].aggs[i])
               /\ physical[k].aggs[i].op = plan[k].aggs[i].op
    /\ (LoweringRan /\ PlanDefect(plan) = "PhysicalExpressionNotSuported") =>
           pc = "failed" /\ failure = "PhysicalExpressionNotSuported" /\ physical = <<>>
    /\ (pc = "failed" /\ failure = "PhysicalExpressionNotSuported") =>
           /\ PlanDefect(plan) = "PhysicalExpressionNotSuported"
           /\ \E k \in 2..Len(plan) : \E i \in DOMAIN plan[k].aggs :
                  plan[k].kind = "Aggregate" /\ NotAnAggregate(plan[k].aggs[i])
\* Lowering failed on an Aggregate whose aggregate list holds a comparison
\* (which, moreover, mentions a column the child lacks).
C18_Witness ==
    /\ pc = "failed" /\ failure = "PhysicalExpressionNotSuported"
    /\ \E k \in 2..Len(plan) :
           /\ plan[k].kind = "Aggregate" /\ plan[k].aggs # <<>>
           /\ plan[k].aggs[1].op = "Eq" /\ AbsentColumn(plan[k].aggs[1], plan[k - 1].schema)


(***************************************************************************)
(* C19.  execute() is lazy.                                                *)
(***************************************************************************)
\* PhysicalPlan::execute is running: no next() of the consumer has been made.
InExecute == pc \in {"exec", "drain"} \/ (pc = "panic" /\ physical # <<>> /\ built < Len(physical))

\* C19: execute() returns a lazy sequence: while the execute() calls of a
\* physical plan run, before the consumer's first next(), nothing is read
\* from the data source and no operator has yielded an item.
C19_LazyExecute ==
    InExecute => scanned = 0 /\ \A l \in DOMAIN emitted : emitted[l] = 0


(***************************************************************************)
(* C20.  The optimized plan computes what the plan computes.               *)
(***************************************************************************)
\* The item the root of the plan p yields for the rows the reader has read
\* last, when p is lowered and executed as it is; an Err item with the
\* lowering's error when p cannot be lowered.
RootItemOf(p) ==
    LET Run(lowered) ==
            IF ~lowered.ok THEN ErrItem(lowered.err)
            ELSE NextChain(lowered.nodes, BatchItem(ScanChunk(file, p[1].projection)),
                           1, Len(p))[Len(p)]
    IN  Run(to_physical_plan(p, Len(p)))
\* The root's last next() was served by the ScanExec, which read a batch.
RootFedByScan ==
    /\ physical # <<>> /\ pc \in {"iter", "done", "panic"} /\ built = Len(physical)
    /\ SourceLevel(physical, Len(physical)) = 1
    /\ trace[1].tag = "batch"

\* C20: executing optimize(P) yields the batches executing P yields: for the
\* same batch of the file, the item the root of the executed optimized plan
\* returns is the item the root of the plan before optimize returns (the
\* same columns in the same order, the same rows).
C20_SameBatches ==
    (optimized >= 1 /\ RootFedByScan) => trace[Len(physical)] = RootItemOf(before)


(***************************************************************************)
(* C21.  Arithmetic on a scalar and an array.                              *)
(***************************************************************************)
\* The array of s op a[i], null where a[i] is null.
Broadcast(op, s, a) ==
    ArrayValue(a.ty,
               [i \in DOMAIN a.vals |-> IF a.valid[i] THEN ArithValues(op, s.vals[1], a.vals[i])
                                        ELSE 0],
               a.valid)
\* The last call evaluated an arithmetic expression whose left operand gave an
\* Int32 scalar and whose right operand an Int32 array without a zero.
ScalarOpArray ==
    /\ call.fn = "evaluate" /\ call.expr.op \in MathOps
    /\ evaluate(call.expr.args[1], call.input).kind = "Scalar"
    /\ evaluate(call.expr.args[1], call.input).ty = "Int32"
    /\ evaluate(call.expr.args[2], call.input).kind = "Array"
    /\ evaluate(call.expr.args[2], call.input).ty = "Int32"
    /\ \A i \in DOMAIN call.input[1].vals :
           evaluate(call.expr.args[2], call.input).vals[i] # 0

\* C21: an arithmetic expression whose left operand is a scalar s and whose
\* right operand is an array a evaluates to the array of s op a[i], the
\* operands in their written order.
C21_ScalarOpArray ==
    ScalarOpArray =>
        call.result = Broadcast(call.expr.op, evaluate(call.expr.args[1], call.input),
                                evaluate(call.expr.args[2], call.input))


(***************************************************************************)
(* C22.  The schema of a Scan and the batches of its ScanExec.             *)
(***************************************************************************)
\* The data source's schema restricted to the names of the projection.
Restricted(projection) ==
    LET Projected(f) == f.name \in Range(projection.names)
    IN  IF projection.some THEN SelectSeq(DataSourceSchema, Projected) ELSE DataSourceSchema

\* C22: whatever the projection list (none, any order, duplicates, names the
\* file lacks), the Scan's schema is the data source's schema restricted to
\* the projected names, in the data source's order, and field i of the schema
\* names the column of the file that array i of the ScanExec's batch holds.
C22_ScanSchema ==
    call.fn = "scan" =>
        /\ call.schema = Restricted(call.projection)
        /\ Len(call.chunk) = Len(call.schema)
        /\ \A i \in DOMAIN call.schema :
               \E n \in DOMAIN DataSourceSchema :
                   /\ DataSourceSchema[n].name = call.schema[i].name
                   /\ call.chunk[i] = FileColumn(call.rows, n)
\* A Scan built with a list against the file's order that names a column the
\* file lacks, on a batch of two rows.
C22_Witness ==
    /\ call.fn = "scan" /\ call.projection = SomeProjection(<<"b", "z", "a">>)
    /\ Len(call.rows) = 2 /\ Len(call.chunk) = 2


(***************************************************************************)
(* C23.  The columns of the batch of an AggregateExec.                     *)
(***************************************************************************)
\* The batch at level l has the columns of the Aggregate's schema, the group
\* columns first, and each of its rows is the key of a group of the rows
\* received followed by the aggregates of that group.
C23_Layout(l) ==
    /\ Len(output[l].cols) = Len(physical[l].exprs) + Len(physical[l].aggs)
    /\ Len(output[l].cols) = Len(physical[l].schema)
    /\ \A c \in DOMAIN output[l].cols : output[l].cols[c].ty = physical[l].schema[c].ty
    /\ \A i \in 1..ChunkLen(output[l].cols) :
           \E g \in GroupsSeen(physical[l]) :
               RowValues(output[l].cols, i) = ExpectedRow(physical[l], g)
\* A row whose group keys are all non-null has been received.
KeyedRowSeen(l) ==
    \E g \in GroupsSeen(physical[l]) : \A c \in DOMAIN g : g[c][2]

\* C23: the batch an AggregateExec emits has |group_exprs| + |agg_exprs|
\* columns in the order of the Aggregate's schema, the key of a group in the
\* group columns and the aggregates of the same group in the columns after
\* them; an AggregateExec that received a row with a key emits that batch.
C23_AggregateColumns ==
    \A l \in AggregateLevels :
        /\ KeyedRowSeen(l) => ~Unwound(l)
        /\ output[l].tag = "batch" => C23_Layout(l)


(***************************************************************************)
(* C24.  The schema of a Selection.                                        *)
(***************************************************************************)
\* C24: every Selection node that can be constructed has a schema of one
\* field, of type Boolean, whatever its predicate.
C24_SelectionSchemaBoolean ==
    \A k \in DOMAIN plan :
        plan[k].kind = "Selection" =>
            Len(plan[k].schema) = 1 /\ plan[k].schema[1].ty = "Boolean"


(***************************************************************************)
(* C25.  Lowering of comparison and arithmetic expressions.               *)
(***************************************************************************)
\* Every column named in the expression is a field of the schema.
RECURSIVE Resolves(_, _)
Resolves(expr, schema) ==
    IF expr.op = "Column" THEN Position(schema, expr.name) >= 0
    ELSE \A i \in DOMAIN expr.args : Resolves(expr.args[i], schema)

\* C25: when every column of a comparison (Eq, Neq, Gt, GtEq, Lt, LtEq) or
\* arithmetic (Add, Sub, Mul, Div) expression resolves in the schema,
\* to_physical_expression succeeds and returns the physical expression of the
\* same operator over the two lowered operands.
C25_BinaryLowering ==
    (/\ call.fn = "to_physical_expression"
     /\ call.expr.op \in LoweringOps
     /\ Resolves(call.expr, call.schema))
        => /\ call.result.ok
           /\ call.result.expr.op = call.expr.op
           /\ \A i \in 1..2 :
                 LET operand == to_physical_expression(call.expr.args[i], call.schema)
                 IN  operand.ok /\ call.result.expr.args[i] = operand.expr


(***************************************************************************)
(* C26.  A Selection whose predicate is a scalar.                          *)
(***************************************************************************)
\* The value of the predicate of the call on the batch of the child.
PredicateValue == evaluate(call.expr, call.input)
ScalarPredicate ==
    /\ call.fn = "next"
    /\ PredicateValue.kind = "Scalar"
    /\ PredicateValue.ty = "Boolean"

\* C26: when the predicate of a SelectionExec evaluates to a Boolean scalar on
\* a batch, the Selection emits a batch and no error: the input batch itself
\* when the scalar is true, and the input's columns with no row when it is
\* false.
C26_ScalarPredicate ==
    ScalarPredicate =>
        /\ call.result.tag = "batch"
        /\ IF PredicateValue.vals[1] = BoolInt(TRUE)
           THEN call.result.cols = call.input
           ELSE /\ ChunkLen(call.result.cols) = 0
                /\ Len(call.result.cols) = Len(call.input)
\* A Selection whose predicate is a comparison of two literals, false, has
\* made a batch without rows of a batch with two rows.
C26_Witness ==
    /\ ScalarPredicate
    /\ call.expr.op = "Eq"
    /\ ChunkLen(call.input) = 2
    /\ PredicateValue.vals[1] = BoolInt(FALSE)
    /\ call.result.tag = "batch" /\ ChunkLen(call.result.cols) = 0


(***************************************************************************)
(* C27.  One accumulate call per group and batch.                          *)
(***************************************************************************)
\* The group hashes AggregateExec::execute computes for the batch consumed last.
HashesOfBatch ==
    LET node == physical[accumulated.level]
        keys == EvaluateAll(node.exprs, accumulated.batch, TRUE, 1)
    IN  group_hashes(IF keys.tag = "ok"
                     THEN [c \in DOMAIN keys.values |-> AsArray(keys.values[c])] ELSE <<>>,
                     ChunkLen(accumulated.batch))
\* The groups with at least one row in that batch.
GroupsOfBatch == {HashesOfBatch.vals[i] : i \in {r \in DOMAIN HashesOfBatch.vals : HashesOfBatch.valid[r]}}
CallsOf(group) == {n \in DOMAIN accumulated.calls : accumulated.calls[n].key = group}
Accumulating == accumulated.level > 0 /\ physical[accumulated.level].aggs # <<>>

\* C27: for the batch an AggregateExec (with accumulators) consumed last, the
\* accumulators of every group with a row in the batch have received exactly
\* one accumulate call, no other group has received one, and the validity of
\* the call of a group is true exactly at the rows whose group hash is the
\* group's.
C27_OneCallPerGroup ==
    Accumulating =>
        /\ \A g \in GroupsOfBatch : Cardinality(CallsOf(g)) = 1
        /\ \A n \in DOMAIN accumulated.calls :
               /\ accumulated.calls[n].key \in GroupsOfBatch
               /\ accumulated.calls[n].validity =
                      [r \in DOMAIN HashesOfBatch.vals |->
                          HashesOfBatch.valid[r] /\ HashesOfBatch.vals[r] = accumulated.calls[n].key]


(***************************************************************************)
(* C28.  Every array an evaluation produces has the length of the batch.   *)
(***************************************************************************)
\* An expression and the operands nested in it.
RECURSIVE SubExpressions(_)
SubExpressions(expr) ==
    {expr} \cup UNION {SubExpressions(expr.args[i]) : i \in DOMAIN expr.args}

\* C28: on a batch whose arrays all have the length N, every Array that the
\* evaluation of an expression produces, for the expression itself and for
\* every operand nested in it, has the length N, and no evaluation returns
\* the error DifferentSizes.
C28_ArrayLengths ==
    call.fn = "evaluate" =>
        /\ call.result = evaluate(call.expr, call.input)
        /\ \A sub \in SubExpressions(call.expr) :
               LET r == evaluate(sub, call.input)
               IN  /\ r.kind = "Array" => Len(r.vals) = ChunkLen(call.input)
                   /\ r.err # "DifferentSizes"
\* A comparison of an (Array, Scalar) difference with an array, evaluated on a
\* batch of two rows, has given an array of two slots.
C28_Witness ==
    /\ call.fn = "evaluate"
    /\ call.expr = BinaryExpression("Eq",
                        BinaryExpression("Sub", ColumnExpression(0), LiteralIntegerExpression(2)),
                        ColumnExpression(1))
    /\ ChunkLen(call.input) = 2
    /\ call.result.kind = "Array" /\ Len(call.result.vals) = 2


(***************************************************************************)
(* C29.  Groups are identified by the sum of the hashes of their keys.     *)
(***************************************************************************)
\* The group-key columns of the batch consumed last.
KeysOfBatch ==
    LET keys == EvaluateAll(physical[accumulated.level].exprs, accumulated.batch, TRUE, 1)
    IN  IF keys.tag = "ok" THEN [c \in DOMAIN keys.values |-> AsArray(keys.values[c])] ELSE <<>>
\* The group key of row i, as (type, value) pairs, and the sum of their hashes.
KeyTuple(i) == [c \in DOMAIN KeysOfBatch |-> <<KeysOfBatch[c].ty, KeysOfBatch[c].vals[i]>>]
RECURSIVE SumOfHashes(_, _)
SumOfHashes(tuple, n) ==
    IF n = 0 THEN HashValue("UInt64", 0)
    ELSE WrappingAdd(SumOfHashes(tuple, n - 1), HashValue(tuple[n][1], tuple[n][2]))
KeyedRows == {i \in DOMAIN HashesOfBatch.vals : HashesOfBatch.valid[i]}
\* Two key tuples with the same entries in another order.
Permuted(s, t) ==
    /\ Len(s) = Len(t) /\ s # t
    /\ \A x \in {s[c] : c \in DOMAIN s} \cup {t[c] : c \in DOMAIN t} :
           Cardinality({c \in DOMAIN s : s[c] = x}) = Cardinality({c \in DOMAIN t : t[c] = x})
\* The first row of the batch with the group hash h.
FirstRowOf(h) ==
    CHOOSE i \in KeyedRows :
        HashesOfBatch.vals[i] = h /\ \A j \in KeyedRows : HashesOfBatch.vals[j] = h => i <= j
StoredKey(entry) == [c \in DOMAIN entry.groups |-> <<entry.groups[c].ty, entry.groups[c].vals[1]>>]
ConsumedBatch == pc = "drain" /\ accumulated.level > 0

\* C29: when an AggregateExec has consumed a batch, the group hash of every
\* row is the wrapping sum of the hashes of its group-key values, two rows
\* whose key tuples are permutations of each other have the same hash, every
\* row with a key is in the entry of its hash, an entry that existed before the
\* batch keeps its stored key, and a new entry stores the key of the first row
\* of the batch with its hash.
C29_GroupByHashSum ==
    ConsumedBatch =>
        /\ \A i \in KeyedRows : HashesOfBatch.vals[i] = SumOfHashes(KeyTuple(i), Len(KeysOfBatch))
        /\ \A i \in KeyedRows, j \in KeyedRows :
               Permuted(KeyTuple(i), KeyTuple(j)) => HashesOfBatch.vals[i] = HashesOfBatch.vals[j]
        /\ \A i \in KeyedRows : HashesOfBatch.vals[i] \in DOMAIN hashmap
        /\ \A h \in DOMAIN hashmap :
               IF h \in DOMAIN accumulated.map
               THEN hashmap[h].groups = accumulated.map[h].groups
               ELSE StoredKey(hashmap[h]) = KeyTuple(FirstRowOf(h))
\* A batch with the rows (1, 2) and (2, 1) under the group keys a, b has been
\* consumed: both rows are keyed, and the one entry of the hashmap stores (1, 2).
C29_Witness ==
    /\ pc = "drain" /\ accumulated.level > 0
    /\ Len(KeysOfBatch) = 2
    /\ \E i \in KeyedRows, j \in KeyedRows :
           /\ i < j
           /\ KeyTuple(i) = << <<"Int32", 1>>, <<"Int32", 2>> >>
           /\ KeyTuple(j) = << <<"Int32", 2>>, <<"Int32", 1>> >>
    /\ Cardinality(DOMAIN hashmap) = 1
    /\ \A h \in DOMAIN hashmap : StoredKey(hashmap[h]) = << <<"Int32", 1>>, <<"Int32", 2>> >>


(***************************************************************************)
(* C30.  ColumnExpression::evaluate.                                       *)
(***************************************************************************)
ColumnCall == call.fn = "evaluate" /\ call.expr.op = "Column"
SupportedColumn ==
    /\ call.expr.index + 1 \in DOMAIN call.input
    /\ call.input[call.expr.index + 1].ty \in {"Int32", "Float64", "Utf8", "Boolean"}
UnsupportedColumn ==
    /\ call.expr.index + 1 \in DOMAIN call.input
    /\ call.input[call.expr.index + 1].ty \notin {"Int32", "Float64", "Utf8", "Boolean"}

\* C30: ColumnExpression(i).evaluate returns the array at position i of the
\* batch when its physical type is Int32, Float64, Utf8 or Boolean, and the
\* error PhysicalTypeNotSupported when the array has another physical type.
C30_ColumnEvaluate ==
    ColumnCall =>
        /\ SupportedColumn =>
               /\ call.result.kind = "Array"
               /\ AsArray(call.result) = call.input[call.expr.index + 1]
        /\ UnsupportedColumn =>
               /\ call.result.kind = "Err"
               /\ call.result.err \in {"PhysicalTypeNotSupported", "PhysicalTypeNotSuported"}


=============================================================================
